---- MODULE Spec2Model ----
(***************************************************************************)
(* LinearService (src/src/services/linear.ts): the service's start-up, its *)
(* bounded in-memory activity ledger, and its remote operations.           *)
(*                                                                         *)
(* JavaScript runs one continuation at a time: an async method runs from   *)
(* its call to its first await in one step, and from the settling of an    *)
(* awaited remote request to its return or throw (or to the next remote    *)
(* request) in one step.  Each such stretch is one action here.  Several   *)
(* invocations may be awaiting at once; each occupies a slot of calls.     *)
(***************************************************************************)
EXTENDS Integers, Sequences, FiniteSets, TLC

\* ------------------------------------------------------------------ bounds
\* Invocations of remote operations in one behaviour.
MaxCalls == 1
\* Invocations that may be awaiting their remote request at the same time.
MaxInFlight == 2

\* --------------------------------------------------------- program constants
\* logActivity keeps the last 1000 activities.
MaxActivities == 1000
\* getActivityLog: limit || 100.
DefaultLimit == 100

\* ------------------------------------------------------------------ values
\* JavaScript's undefined.
Undefined == "<undefined>"
\* The LINEAR_API_KEY settings the runtime may hold.
ApiKeys == {Undefined, "", "test-api-key"}
\* !x for the settings and optional string parameters the service reads.
Falsy(x) == x = Undefined \/ x = ""

\* Identifiers a caller passes (teamId, issueId, projectId).
Ids == {"id-1"}
\* The ids the remote API gives to what it creates or returns.
RemoteIds == {"remote-1"}

\* What an awaited remote request may reject with: an Error with a message, an
\* Error without one (new Error()), or a value that is not an Error.
Thrown ==
  { [isError |-> TRUE,  message |-> "Network error"],
    [isError |-> TRUE,  message |-> ""],
    [isError |-> FALSE, message |-> Undefined] }

\* error instanceof Error ? error.message : 'Unknown error'
errorMessage(e) == IF e.isError THEN e.message ELSE "Unknown error"

\* new Error(msg), thrown by the operation itself inside its try block.
NewError(msg) == [isError |-> TRUE, message |-> msg]

\* new LinearAPIError(`${prefix}: ${msg}`): the template string is kept as the
\* pair of its fixed part and the interpolated message.
LinearAPIError(prefix, msg) ==
  [name |-> "LinearAPIError", message |-> <<prefix, msg>>]

\* new LinearAuthenticationError(msg)
LinearAuthenticationError(msg) ==
  [name |-> "LinearAuthenticationError", message |-> <<msg>>]

NoError == [name |-> "none", message |-> <<>>]
NoThrown == [isError |-> FALSE, message |-> "<nothing>"]

VARIABLES
  apiKey,       \* runtime.getSetting('LINEAR_API_KEY')
  phase,        \* LinearService.start: "unstarted", "validating", "started", "failed"
  client,       \* this.client: "none" until the constructor creates it
  startError,   \* what LinearService.start rejected with
  activityLog,  \* this.activityLog
  calls,        \* the invocations of remote operations, one per slot
  issued,       \* number of invocations so far (the serial number of the last one)
  inserted,     \* number of items logActivity has pushed so far
  logged,       \* ghost: logged[n] is what invocation n has pushed, in order
  clearedAt,    \* ghost: the value of inserted at the last clearActivityLog or stop
  lastSync,     \* the stop, clearActivityLog or getActivityLog call made in the
                \* latest step, with what it returned; none after any other step
  defaultTeamKey, \* runtime.getSetting('LINEAR_DEFAULT_TEAM_KEY'); <<>> when unset
  message,      \* message.content.text of the request an action handler is given
  options,      \* the _options bag the handler is given
  handler,      \* the handler invocation: its action, its position, its locals
  emitted,      \* the texts sent through callback, in order
  result        \* the ActionResult the handler returned

\* The state of the service, and the state of an action handler's invocation.
serviceVars == <<apiKey, phase, client, startError, activityLog, calls, issued,
                 inserted, logged, clearedAt, lastSync>>

handlerVars == <<defaultTeamKey, message, options, handler, emitted, result>>

vars == <<serviceVars, handlerVars>>

Slots == 1..MaxInFlight

IdleCall ==
  [op |-> "none", arg |-> Undefined, pc |-> "idle", inv |-> 0, requests |-> 0,
   cause |-> NoThrown, value |-> Undefined, error |-> NoError,
   outlived |-> "none"]

\* No handler was invoked: no request text, no options, nothing returned.
NoOptions == [given |-> FALSE]

IdleHandler == [action |-> "none", pc |-> "idle"]

NoResult == [returned |-> FALSE]

NoHandler ==
  /\ defaultTeamKey = <<>>
  /\ message = <<>>
  /\ options = NoOptions
  /\ handler = IdleHandler
  /\ emitted = <<>>
  /\ result = NoResult

NoSync == [op |-> "none"]

\* ------------------------------------------------------------- the ledger

\* The item logActivity builds.  id (`${Date.now()}-${random}`) is a fresh token:
\* it is the serial number of the insertion, so the k-th item ever pushed is the
\* one whose id is k.  timestamp is set at the same
\* instant and details is a free-form payload; neither is read by the service.
ActivityItem(action, resourceType, resourceId, success, error) ==
  [id |-> inserted + 1, action |-> action, resource_type |-> resourceType,
   resource_id |-> resourceId, success |-> success, error |-> error]

\* Array.prototype.slice(n) for an integer n: from index n (from the end if
\* n < 0) to the end.
Slice(s, n) ==
  LET from == IF n < 0 THEN (IF Len(s) + n < 0 THEN 0 ELSE Len(s) + n)
              ELSE (IF n > Len(s) THEN Len(s) ELSE n)
  IN SubSeq(s, from + 1, Len(s))

\* Pushed without the trimming of the ledger.
PushedUnbounded(log, item) == Append(log, item)

\* Pushed trimming with slice(0, 1000): the newest item is the one dropped.
PushedKeepOldest(log, item) ==
  LET appended == Append(log, item)
  IN IF Len(appended) > MaxActivities
     THEN SubSeq(appended, 1, MaxActivities)
     ELSE appended

\* Pushed with unshift: the item goes to the front of the ledger.
PushedFirst(log, item) ==
  LET prepended == <<item>> \o log
  IN IF Len(prepended) > MaxActivities
     THEN Slice(prepended, -MaxActivities)
     ELSE prepended

\* The ledger after logActivity pushed item: push, then keep the last 1000.
Pushed(log, item) ==
  LET appended == Append(log, item)
  IN IF Len(appended) > MaxActivities
     THEN Slice(appended, -MaxActivities)
     ELSE appended

\* logActivity(action, resourceType, resourceId, details, success, error?) made
\* by invocation inv.
logActivity(inv, action, resourceType, resourceId, success, error) ==
  LET item == ActivityItem(action, resourceType, resourceId, success, error)
  IN /\ activityLog' = Pushed(activityLog, item)
     /\ inserted' = inserted + 1
     /\ logged' = [logged EXCEPT ![inv] = Append(@, item)]

\* ------------------------------------------------- getActivityLog's inputs
\* Largest limit a caller passes.
MaxLimit == 1

\* limit?: number -- omitted, or a non-negative integer.
LimitArgs ==
  {[given |-> FALSE, n |-> 0]} \cup {[given |-> TRUE, n |-> k] : k \in 0..MaxLimit}

\* The filter objects a caller passes (Partial<LinearActivityItem>).
FilterObjects ==
  { [action |-> "create_issue", success |-> TRUE] }

\* filter?: omitted, or one of the filter objects.
FilterArgs ==
  {[given |-> FALSE, entries |-> [k \in {} |-> 0]]}
    \cup {[given |-> TRUE, entries |-> f] : f \in FilterObjects}

\* Object.entries(filter).every(([key, value]) => item[key] === value)
MatchesFilter(item, entries) ==
  \A key \in DOMAIN entries : key \in DOMAIN item /\ item[key] = entries[key]

\* limit || 100
EffectiveLimit(limit) ==
  IF limit.given /\ limit.n # 0 THEN limit.n ELSE DefaultLimit

\* getActivityLog(limit?, filter?) on the ledger log.
getActivityLog(log, limit, filter) ==
  LET filtered == IF filter.given THEN SelectSeq(log, LAMBDA item : MatchesFilter(item, filter.entries)) ELSE log
  IN Slice(filtered, -EffectiveLimit(limit))

\* ---------------------------------------------------------------- start-up

Init ==
  /\ apiKey \in ApiKeys
  /\ phase = "unstarted"
  /\ client = "none"
  /\ startError = NoError
  /\ activityLog = <<>>
  /\ calls = [c \in Slots |-> IdleCall]
  /\ issued = 0
  /\ inserted = 0
  /\ logged = <<>>
  /\ clearedAt = 0
  /\ lastSync = NoSync
  /\ NoHandler

\* start with a constructor that does not check the API key.
startWithoutKeyCheck ==
  /\ phase = "unstarted"
  /\ phase' = "validating"
  /\ client' = "client"
  /\ UNCHANGED <<apiKey, startError, activityLog, calls, issued, inserted, logged,
                 clearedAt, lastSync>>

\* static start(runtime): new LinearService(runtime) -- the constructor throws
\* without an API key, else creates the client -- then awaits validateConnection.
start ==
  /\ phase = "unstarted"
  /\ IF Falsy(apiKey)
     THEN /\ phase' = "failed"
          /\ startError' = LinearAuthenticationError("Linear API key is required")
          /\ client' = client
     ELSE /\ phase' = "validating"
          /\ client' = "client"
          /\ startError' = startError
  /\ UNCHANGED <<apiKey, activityLog, calls, issued, inserted, logged, clearedAt,
                 lastSync>>

\* validateConnection that lets start return the service although the
\* connection check was rejected.
validateConnectionSwallowing ==
  /\ phase = "validating"
  /\ \/ /\ phase' = "started"
        /\ startError' = startError
     \/ /\ \E e \in Thrown :
             startError' =
               LinearAuthenticationError("Failed to authenticate with Linear API")
        /\ phase' = "started"
  /\ UNCHANGED <<apiKey, client, activityLog, calls, issued, inserted, logged,
                 clearedAt, lastSync>>

\* validateConnection after `await this.client.viewer` settled; start then returns
\* the service, or rejects.
validateConnection ==
  /\ phase = "validating"
  /\ \/ /\ phase' = "started"
        /\ startError' = startError
     \/ /\ \E e \in Thrown :
             startError' =
               LinearAuthenticationError("Failed to authenticate with Linear API")
        /\ phase' = "failed"
  /\ UNCHANGED <<apiKey, client, activityLog, calls, issued, inserted, logged,
                 clearedAt, lastSync>>

\* A caller holds the service (runtime.getService('linear')) once start resolved.
HasService == phase = "started"

\* Ghost: the invocations in flight when the ledger is emptied are marked as
\* having outlived a stop or a clear; nothing else of them changes.
Outliving(by) ==
  [c \in Slots |-> IF calls[c].pc = "await"
                   THEN [calls[c] EXCEPT !.outlived = by]
                   ELSE calls[c]]

\* stop(): this.activityLog = []
stop ==
  /\ HasService
  /\ activityLog' = <<>>
  /\ clearedAt' = inserted
  /\ lastSync' = [op |-> "stop"]
  /\ calls' = Outliving("stop")
  /\ UNCHANGED <<apiKey, phase, client, startError, issued, inserted, logged>>

\* clearActivityLog that leaves the ledger as it is.
clearActivityLogKeeping ==
  /\ HasService
  /\ clearedAt' = inserted
  /\ lastSync' = [op |-> "clear", held |-> Len(activityLog)]
  /\ calls' = Outliving("clear")
  /\ UNCHANGED <<apiKey, phase, client, startError, activityLog, issued,
                 inserted, logged>>

\* clearActivityLog(): this.activityLog = []
clearActivityLog ==
  /\ HasService
  /\ activityLog' = <<>>
  /\ clearedAt' = inserted
  /\ lastSync' = [op |-> "clear", held |-> Len(activityLog)]
  /\ calls' = Outliving("clear")
  /\ UNCHANGED <<apiKey, phase, client, startError, issued, inserted, logged>>

\* A caller's getActivityLog(limit, filter); lastSync keeps what it returned,
\* whether it was called right after clearActivityLog, and how many items the
\* ledger held before that clear.
GetActivityLog(limit, filter) ==
  /\ HasService
  /\ lastSync' = [op |-> "query", limit |-> limit, filter |-> filter,
                  result |-> getActivityLog(activityLog, limit, filter),
                  afterClear |-> lastSync.op = "clear",
                  held |-> IF lastSync.op = "clear" THEN lastSync.held ELSE 0]
  /\ UNCHANGED <<apiKey, phase, client, startError, activityLog, calls, issued,
                 inserted, logged, clearedAt>>

\* ------------------------------------------------------ remote operations

Free(c) == calls[c].pc \in {"idle", "returned", "thrown"}

\* A caller invokes operation op with argument arg: the method runs to its first
\* await, having issued its first remote request.  The invocation takes the
\* lowest free slot.
Invoke(c, op, arg) ==
  /\ HasService
  /\ Free(c)
  /\ \A d \in Slots : d < c => ~Free(d)
  /\ issued' = issued + 1
  /\ logged' = Append(logged, <<>>)
  /\ calls' = [calls EXCEPT ![c] =
       [op |-> op, arg |-> arg, pc |-> "await", inv |-> issued + 1,
        requests |-> 1, cause |-> NoThrown, value |-> Undefined,
        error |-> NoError, outlived |-> "none"]]
  /\ lastSync' = NoSync
  /\ UNCHANGED <<apiKey, phase, client, startError, activityLog, inserted,
                 clearedAt>>

\* Invocation c of op is suspended on its n-th remote request.
Awaiting(c, op, n) ==
  /\ calls[c].pc = "await"
  /\ calls[c].op = op
  /\ calls[c].requests = n

\* The awaited request resolved and the method awaits a further remote request.
NextRequest(c) ==
  /\ calls' = [calls EXCEPT ![c].requests = @ + 1]
  /\ lastSync' = NoSync
  /\ UNCHANGED <<apiKey, phase, client, startError, activityLog, issued, inserted, logged, clearedAt>>

\* The try block's end without its logActivity call.
SucceedWithoutLog(c, action, resourceType, resourceId, value) ==
  /\ calls' = [calls EXCEPT ![c].pc = "returned", ![c].value = value]
  /\ lastSync' = NoSync
  /\ UNCHANGED <<apiKey, phase, client, startError, activityLog, issued,
                 inserted, logged, clearedAt>>

\* A try block whose result is dropped when the ledger was emptied while the
\* remote request was in flight.
SucceedUnlessEmptied(c, action, resourceType, resourceId, value) ==
  IF calls[c].outlived # "none"
  THEN /\ calls' = [calls EXCEPT ![c].pc = "returned", ![c].value = value]
       /\ lastSync' = NoSync
       /\ UNCHANGED <<apiKey, phase, client, startError, activityLog, issued,
                      inserted, logged, clearedAt>>
  ELSE /\ logActivity(calls[c].inv, action, resourceType, resourceId, TRUE, Undefined)
       /\ calls' = [calls EXCEPT ![c].pc = "returned", ![c].value = value]
       /\ lastSync' = NoSync
       /\ UNCHANGED <<apiKey, phase, client, startError, issued, clearedAt>>

\* The try block's end: this.logActivity(action, resourceType, resourceId,
\* details, true); return value.
Succeed(c, action, resourceType, resourceId, value) ==
  /\ logActivity(calls[c].inv, action, resourceType, resourceId, TRUE, Undefined)
  /\ calls' = [calls EXCEPT ![c].pc = "returned", ![c].value = value]
  /\ lastSync' = NoSync
  /\ UNCHANGED <<apiKey, phase, client, startError, issued, clearedAt>>

\* A catch block that issues the remote request again (twice at most) before
\* it gives up.
FailAfterRetry(c, e, action, resourceType, resourceId, prefix) ==
  IF calls[c].requests < 3
  THEN /\ calls' = [calls EXCEPT ![c].requests = @ + 1]
       /\ lastSync' = NoSync
       /\ UNCHANGED <<apiKey, phase, client, startError, activityLog, issued,
                      inserted, logged, clearedAt>>
  ELSE /\ logActivity(calls[c].inv, action, resourceType, resourceId, FALSE,
                      errorMessage(e))
       /\ calls' = [calls EXCEPT ![c].pc = "thrown", ![c].cause = e,
                                 ![c].error = LinearAPIError(prefix, errorMessage(e))]
       /\ lastSync' = NoSync
       /\ UNCHANGED <<apiKey, phase, client, startError, issued, clearedAt>>

\* A catch block that logs the failure without its message.
FailWithoutMessage(c, e, action, resourceType, resourceId, prefix) ==
  /\ logActivity(calls[c].inv, action, resourceType, resourceId, FALSE, Undefined)
  /\ calls' = [calls EXCEPT ![c].pc = "thrown", ![c].cause = e,
                            ![c].error = LinearAPIError(prefix, errorMessage(e))]
  /\ lastSync' = NoSync
  /\ UNCHANGED <<apiKey, phase, client, startError, issued, clearedAt>>

\* The catch block, entered with the caught value e:
\*   const errorMessage = error instanceof Error ? error.message : 'Unknown error';
\*   this.logActivity(action, resourceType, resourceId, details, false, errorMessage);
\*   throw new LinearAPIError(`${prefix}: ${errorMessage}`);
Fail(c, e, action, resourceType, resourceId, prefix) ==
  /\ logActivity(calls[c].inv, action, resourceType, resourceId, FALSE,
                 errorMessage(e))
  /\ calls' = [calls EXCEPT ![c].pc = "thrown", ![c].cause = e,
                            ![c].error = LinearAPIError(prefix, errorMessage(e))]
  /\ lastSync' = NoSync
  /\ UNCHANGED <<apiKey, phase, client, startError, issued, clearedAt>>

\* The optional teamId a caller passes.
OptionalIds == Ids \cup {Undefined}

\* async getTeams()
getTeams(c) == Invoke(c, "getTeams", Undefined)

getTeamsSettled(c) ==
  /\ Awaiting(c, "getTeams", 1)
  /\ \/ Succeed(c, "list_teams", "team", "all", "teams")
     \/ \E e \in Thrown :
          Fail(c, e, "list_teams", "team", "all", "Failed to fetch teams")

\* async getTeam(teamId)
getTeam(c, teamId) == Invoke(c, "getTeam", teamId)

getTeamSettled(c) ==
  /\ Awaiting(c, "getTeam", 1)
  /\ \/ Succeed(c, "get_team", "team", calls[c].arg, "team")
     \/ \E e \in Thrown :
          Fail(c, e, "get_team", "team", calls[c].arg, "Failed to fetch team")

\* createIssue logging its success under 'new' instead of the issue's id.
createIssueSettledAsNew(c) ==
  \/ /\ Awaiting(c, "createIssue", 1)
     /\ \/ NextRequest(c)
        \/ Fail(c, NewError("Failed to create issue"), "create_issue", "issue",
                "new", "Failed to create issue")
  \/ /\ Awaiting(c, "createIssue", 2)
     /\ \E id \in RemoteIds : Succeed(c, "create_issue", "issue", "new", id)
  \/ /\ calls[c].pc = "await" /\ calls[c].op = "createIssue"
     /\ \E e \in Thrown :
          Fail(c, e, "create_issue", "issue", "new", "Failed to create issue")

\* async createIssue(input): awaits client.createIssue, then the payload's issue
\* (a further fetch, or undefined when the payload carries none).
createIssue(c, teamId) == Invoke(c, "createIssue", teamId)

createIssueSettled(c) ==
  \/ /\ Awaiting(c, "createIssue", 1)
     /\ \/ NextRequest(c)
        \/ Fail(c, NewError("Failed to create issue"), "create_issue", "issue",
                "new", "Failed to create issue")
  \/ /\ Awaiting(c, "createIssue", 2)
     /\ \E id \in RemoteIds : Succeed(c, "create_issue", "issue", id, id)
  \/ /\ calls[c].pc = "await" /\ calls[c].op = "createIssue"
     /\ \E e \in Thrown :
          Fail(c, e, "create_issue", "issue", "new", "Failed to create issue")

\* async getIssue(issueId)
getIssue(c, issueId) == Invoke(c, "getIssue", issueId)

getIssueSettled(c) ==
  /\ Awaiting(c, "getIssue", 1)
  /\ \/ Succeed(c, "get_issue", "issue", calls[c].arg, "issue")
     \/ \E e \in Thrown :
          Fail(c, e, "get_issue", "issue", calls[c].arg, "Failed to fetch issue")

\* async updateIssue(issueId, updates): awaits client.updateIssue, then the
\* payload's issue.
updateIssue(c, issueId) == Invoke(c, "updateIssue", issueId)

updateIssueSettled(c) ==
  \/ /\ Awaiting(c, "updateIssue", 1)
     /\ \/ NextRequest(c)
        \/ Fail(c, NewError("Failed to update issue"), "update_issue", "issue",
                calls[c].arg, "Failed to update issue")
  \/ /\ Awaiting(c, "updateIssue", 2)
     /\ Succeed(c, "update_issue", "issue", calls[c].arg, "issue")
  \/ /\ calls[c].pc = "await" /\ calls[c].op = "updateIssue"
     /\ \E e \in Thrown :
          Fail(c, e, "update_issue", "issue", calls[c].arg,
               "Failed to update issue")

\* async searchIssues(filters)
searchIssues(c) == Invoke(c, "searchIssues", Undefined)

searchIssuesSettled(c) ==
  /\ Awaiting(c, "searchIssues", 1)
  /\ \/ Succeed(c, "search_issues", "issue", "search", "issues")
     \/ \E e \in Thrown :
          Fail(c, e, "search_issues", "issue", "search",
               "Failed to search issues")

\* async createComment(input): awaits client.createComment, then the payload's
\* comment.
createComment(c, issueId) == Invoke(c, "createComment", issueId)

createCommentSettled(c) ==
  \/ /\ Awaiting(c, "createComment", 1)
     /\ \/ NextRequest(c)
        \/ Fail(c, NewError("Failed to create comment"), "create_comment",
                "comment", "new", "Failed to create comment")
  \/ /\ Awaiting(c, "createComment", 2)
     /\ \E id \in RemoteIds : Succeed(c, "create_comment", "comment", id, id)
  \/ /\ calls[c].pc = "await" /\ calls[c].op = "createComment"
     /\ \E e \in Thrown :
          Fail(c, e, "create_comment", "comment", "new",
               "Failed to create comment")

\* async getProjects(teamId?): awaits client.projects; with a teamId and a
\* non-empty project list, awaits the projects' teams (Promise.all).
getProjects(c, teamId) == Invoke(c, "getProjects", teamId)

getProjectsSettled(c) ==
  \/ /\ Awaiting(c, "getProjects", 1)
     /\ \/ Succeed(c, "list_projects", "project", "all", "projects")
        \/ /\ ~Falsy(calls[c].arg)
           /\ NextRequest(c)
  \/ /\ Awaiting(c, "getProjects", 2)
     /\ Succeed(c, "list_projects", "project", "all", "projects")
  \/ /\ calls[c].pc = "await" /\ calls[c].op = "getProjects"
     /\ \E e \in Thrown :
          Fail(c, e, "list_projects", "project", "all",
               "Failed to fetch projects")

\* async getProject(projectId)
getProject(c, projectId) == Invoke(c, "getProject", projectId)

getProjectSettled(c) ==
  /\ Awaiting(c, "getProject", 1)
  /\ \/ Succeed(c, "get_project", "project", calls[c].arg, "project")
     \/ \E e \in Thrown :
          Fail(c, e, "get_project", "project", calls[c].arg,
               "Failed to fetch project")

\* async getUsers()
getUsers(c) == Invoke(c, "getUsers", Undefined)

getUsersSettled(c) ==
  /\ Awaiting(c, "getUsers", 1)
  /\ \/ Succeed(c, "list_users", "user", "all", "users")
     \/ \E e \in Thrown :
          Fail(c, e, "list_users", "user", "all", "Failed to fetch users")

\* async getCurrentUser()
getCurrentUser(c) == Invoke(c, "getCurrentUser", Undefined)

getCurrentUserSettled(c) ==
  /\ Awaiting(c, "getCurrentUser", 1)
  /\ \/ \E id \in RemoteIds : Succeed(c, "get_current_user", "user", id, id)
     \/ \E e \in Thrown :
          Fail(c, e, "get_current_user", "user", "current",
               "Failed to fetch current user")

\* async getLabels(teamId?)
getLabels(c, teamId) == Invoke(c, "getLabels", teamId)

getLabelsSettled(c) ==
  /\ Awaiting(c, "getLabels", 1)
  /\ \/ Succeed(c, "list_labels", "label", "all", "labels")
     \/ \E e \in Thrown :
          Fail(c, e, "list_labels", "label", "all", "Failed to fetch labels")

\* async getWorkflowStates(teamId)
getWorkflowStates(c, teamId) == Invoke(c, "getWorkflowStates", teamId)

getWorkflowStatesSettled(c) ==
  /\ Awaiting(c, "getWorkflowStates", 1)
  /\ \/ Succeed(c, "list_workflow_states", "team", calls[c].arg, "states")
     \/ \E e \in Thrown :
          Fail(c, e, "list_workflow_states", "team", calls[c].arg,
               "Failed to fetch workflow states")

\* ------------------------------------------------------------ specification

Next ==
  \/ start /\ UNCHANGED handlerVars
  \/ validateConnection /\ UNCHANGED handlerVars
  \/ stop /\ UNCHANGED handlerVars
  \/ clearActivityLog /\ UNCHANGED handlerVars
  \/ \E c \in Slots : issued < MaxCalls /\ getTeams(c) /\ UNCHANGED handlerVars
  \/ \E c \in Slots : getTeamsSettled(c) /\ UNCHANGED handlerVars
  \/ \E c \in Slots, id \in Ids : issued < MaxCalls /\ getTeam(c, id) /\ UNCHANGED handlerVars
  \/ \E c \in Slots : getTeamSettled(c) /\ UNCHANGED handlerVars
  \/ \E c \in Slots, id \in Ids : issued < MaxCalls /\ createIssue(c, id) /\ UNCHANGED handlerVars
  \/ \E c \in Slots : createIssueSettled(c) /\ UNCHANGED handlerVars
  \/ \E c \in Slots, id \in Ids : issued < MaxCalls /\ getIssue(c, id) /\ UNCHANGED handlerVars
  \/ \E c \in Slots : getIssueSettled(c) /\ UNCHANGED handlerVars
  \/ \E c \in Slots, id \in Ids : issued < MaxCalls /\ updateIssue(c, id) /\ UNCHANGED handlerVars
  \/ \E c \in Slots : updateIssueSettled(c) /\ UNCHANGED handlerVars
  \/ \E c \in Slots : issued < MaxCalls /\ searchIssues(c) /\ UNCHANGED handlerVars
  \/ \E c \in Slots : searchIssuesSettled(c) /\ UNCHANGED handlerVars
  \/ \E c \in Slots, id \in Ids : issued < MaxCalls /\ createComment(c, id) /\ UNCHANGED handlerVars
  \/ \E c \in Slots : createCommentSettled(c) /\ UNCHANGED handlerVars
  \/ \E c \in Slots, id \in OptionalIds : issued < MaxCalls /\ getProjects(c, id) /\ UNCHANGED handlerVars
  \/ \E c \in Slots : getProjectsSettled(c) /\ UNCHANGED handlerVars
  \/ \E c \in Slots, id \in Ids : issued < MaxCalls /\ getProject(c, id) /\ UNCHANGED handlerVars
  \/ \E c \in Slots : getProjectSettled(c) /\ UNCHANGED handlerVars
  \/ \E c \in Slots : issued < MaxCalls /\ getUsers(c) /\ UNCHANGED handlerVars
  \/ \E c \in Slots : getUsersSettled(c) /\ UNCHANGED handlerVars
  \/ \E c \in Slots : issued < MaxCalls /\ getCurrentUser(c) /\ UNCHANGED handlerVars
  \/ \E c \in Slots : getCurrentUserSettled(c) /\ UNCHANGED handlerVars
  \/ \E c \in Slots, id \in OptionalIds : issued < MaxCalls /\ getLabels(c, id) /\ UNCHANGED handlerVars
  \/ \E c \in Slots : getLabelsSettled(c) /\ UNCHANGED handlerVars
  \/ \E c \in Slots, id \in Ids : issued < MaxCalls /\ getWorkflowStates(c, id) /\ UNCHANGED handlerVars
  \/ \E c \in Slots : getWorkflowStatesSettled(c) /\ UNCHANGED handlerVars

Spec == Init /\ [][Next]_vars

\* ------------------------------------------------ the ledger near its capacity

\* The lengths the ledger starts SpecLedger with.
PreFills == {0, MaxActivities - 1, MaxActivities}

\* The i-th item of a ledger that earlier invocations filled: a created issue,
\* a failed fetch of an issue and a listing of the teams, in turn.
PreFillItem(i) ==
  CASE i % 3 = 0 -> [id |-> i, action |-> "create_issue", resource_type |-> "issue",
                     resource_id |-> "remote-1", success |-> TRUE,
                     error |-> Undefined]
    [] i % 3 = 1 -> [id |-> i, action |-> "get_issue", resource_type |-> "issue",
                     resource_id |-> "id-1", success |-> FALSE,
                     error |-> "Network error"]
    [] OTHER     -> [id |-> i, action |-> "list_teams", resource_type |-> "team",
                     resource_id |-> "all", success |-> TRUE, error |-> Undefined]

\* A started service whose earlier invocations (all completed, none cleared)
\* left n items: none yet, or as many as fill the ledger, or one fewer.
InitLedger ==
  /\ apiKey = "test-api-key"
  /\ phase = "started"
  /\ client = "client"
  /\ startError = NoError
  /\ \E n \in PreFills :
       /\ activityLog = [i \in 1..n |-> PreFillItem(i)]
       /\ inserted = n
  /\ logged = <<>>
  /\ calls = [c \in Slots |-> IdleCall]
  /\ issued = 0
  /\ clearedAt = 0
  /\ lastSync = NoSync
  /\ NoHandler

\* The ledger's own operations, and the invocations that fill it.
NextLedger ==
  \/ stop /\ UNCHANGED handlerVars
  \/ clearActivityLog /\ UNCHANGED handlerVars
  \/ \E limit \in LimitArgs, filter \in FilterArgs : GetActivityLog(limit, filter) /\ UNCHANGED handlerVars
  \/ \E c \in Slots : issued < MaxCalls /\ getTeams(c) /\ UNCHANGED handlerVars
  \/ \E c \in Slots : getTeamsSettled(c) /\ UNCHANGED handlerVars
  \/ \E c \in Slots, id \in Ids : issued < MaxCalls /\ createIssue(c, id) /\ UNCHANGED handlerVars
  \/ \E c \in Slots : createIssueSettled(c) /\ UNCHANGED handlerVars

SpecLedger == InitLedger /\ [][NextLedger]_vars

\* ------------------------------------------------ operations in flight at once

\* Invocations made of a service whose operations overlap.
MaxConcurrent == 2

\* A started service with an empty ledger; its callers do not wait for one
\* operation to complete before they invoke the next.
InitConcurrent ==
  /\ apiKey = "test-api-key"
  /\ phase = "started"
  /\ client = "client"
  /\ startError = NoError
  /\ activityLog = <<>>
  /\ inserted = 0
  /\ logged = <<>>
  /\ calls = [c \in Slots |-> IdleCall]
  /\ issued = 0
  /\ clearedAt = 0
  /\ lastSync = NoSync
  /\ NoHandler

NextConcurrent ==
  \/ \E c \in Slots, id \in Ids : issued < MaxConcurrent /\ getIssue(c, id) /\ UNCHANGED handlerVars
  \/ \E c \in Slots : getIssueSettled(c) /\ UNCHANGED handlerVars
  \/ \E c \in Slots : issued < MaxConcurrent /\ getTeams(c) /\ UNCHANGED handlerVars
  \/ \E c \in Slots : getTeamsSettled(c) /\ UNCHANGED handlerVars
  \/ \E c \in Slots, id \in Ids : issued < MaxConcurrent /\ createIssue(c, id) /\ UNCHANGED handlerVars
  \/ \E c \in Slots : createIssueSettled(c) /\ UNCHANGED handlerVars

SpecConcurrent == InitConcurrent /\ [][NextConcurrent]_vars

\* --------------------------------------------------- the handlers' inputs

\* Longest request text (message.content.text) drawn for a handler that looks
\* for an issue identifier in it.
MaxTextLen == 3

\* A string is the sequence of its characters.
LowerCase ==
  <<"a", "b", "c", "d", "e", "f", "g", "h", "i", "j", "k", "l", "m", "n", "o",
    "p", "q", "r", "s", "t", "u", "v", "w", "x", "y", "z">>

UpperCase ==
  <<"A", "B", "C", "D", "E", "F", "G", "H", "I", "J", "K", "L", "M", "N", "O",
    "P", "Q", "R", "S", "T", "U", "V", "W", "X", "Y", "Z">>

Range(f) == {f[i] : i \in DOMAIN f}

Letters == Range(LowerCase) \cup Range(UpperCase)
Digits == {"0", "1", "2", "3", "4", "5", "6", "7", "8", "9"}

\* The characters the enumerated request texts are made of: a letter, a digit
\* and the hyphen.
Chars == {"E", "1", "-"}

\* String.prototype.toLowerCase
toLowerCase(s) ==
  [i \in 1..Len(s) |->
     IF \E k \in DOMAIN UpperCase : UpperCase[k] = s[i]
     THEN LowerCase[CHOOSE k \in DOMAIN UpperCase : UpperCase[k] = s[i]]
     ELSE s[i]]

\* s holds word from index i on.
HoldsAt(s, i, word) ==
  /\ i >= 1
  /\ i + Len(word) - 1 <= Len(s)
  /\ SubSeq(s, i, i + Len(word) - 1) = word

\* String.prototype.includes
includes(s, word) == \E i \in 1..(Len(s) + 1) : HoldsAt(s, i, word)

\* \w: letters, digits and the underscore.
WordChars == Letters \cup Digits \cup {"_"}

RECURSIVE TextsOfLen(_)
TextsOfLen(n) ==
  IF n = 0 THEN {<<>>}
  ELSE {Append(s, ch) : s \in TextsOfLen(n - 1), ch \in Chars}

\* The request texts; <<>> is '' (and stands for a missing text: the handlers
\* only test !content).
Texts == UNION {TextsOfLen(n) : n \in 0..MaxTextLen}

\* The index after the longest run of characters of class that starts at i.
RECURSIVE RunEnd(_, _, _)
RunEnd(s, i, class) ==
  IF i <= Len(s) /\ s[i] \in class THEN RunEnd(s, i + 1, class) ELSE i

\* /([A-Za-z]+-\d+)/ in the place of /(\w+-\d+)/: letters only before the
\* hyphen.
MatchAtLetters(s, i) ==
  LET w == RunEnd(s, i, Letters)
  IN IF w > i /\ w <= Len(s) /\ s[w] = "-"
     THEN LET d == RunEnd(s, w + 1, Digits)
          IN IF d > w + 1 THEN SubSeq(s, i, d - 1) ELSE <<>>
     ELSE <<>>

\* What /(\w+-\d+)/ matches when the match starts at i, <<>> when it cannot:
\* both quantifiers are greedy, and a shorter \w+ cannot be followed by the
\* hyphen (the character after it is a \w), so the runs are the longest ones.
MatchAt(s, i) ==
  LET w == RunEnd(s, i, WordChars)
  IN IF w > i /\ w <= Len(s) /\ s[w] = "-"
     THEN LET d == RunEnd(s, w + 1, Digits)
          IN IF d > w + 1 THEN SubSeq(s, i, d - 1) ELSE <<>>
     ELSE <<>>

\* content.match(/(\w+-\d+)/): the leftmost match; issueMatch[1] is the whole
\* match; <<>> is null (a match has three characters at least).
issueMatch(content) ==
  LET starts == {i \in 1..Len(content) : MatchAt(content, i) # <<>>}
  IN IF starts = {} THEN <<>>
     ELSE MatchAt(content, CHOOSE i \in starts : \A j \in starts : i <= j)

\* An issue identifier the completion names that the request text cannot hold.
OtherIssue == <<"E", "E", "-", "1", "1">>

\* ------------------------------------------- the completion's response
\* runtime.useModel resolves to a string: a sequence of pieces, each a code
\* fence (```), the word json, a line break, or a run of other text, which is
\* the text of a JSON value or not.
Fence == [piece |-> "fence"]
Json == [piece |-> "json"]
Newline == [piece |-> "\n"]
Body(value) == [piece |-> "body", valid |-> TRUE, value |-> value]
Garbage == [piece |-> "body", valid |-> FALSE]

\* response.replace(/^```(?:json)?\n?/, '')
StripOpeningFence(r) ==
  IF r # <<>> /\ r[1] = Fence
  THEN LET a == Tail(r)
           b == IF a # <<>> /\ a[1] = Json THEN Tail(a) ELSE a
       IN IF b # <<>> /\ b[1] = Newline THEN Tail(b) ELSE b
  ELSE r

\* .replace(/\n?```$/, '')
StripClosingFence(r) ==
  IF r # <<>> /\ r[Len(r)] = Fence
  THEN LET a == SubSeq(r, 1, Len(r) - 1)
       IN IF a # <<>> /\ a[Len(a)] = Newline THEN SubSeq(a, 1, Len(a) - 1) ELSE a
  ELSE r

\* .trim()
RECURSIVE Trim(_)
Trim(r) ==
  IF r # <<>> /\ r[1] = Newline THEN Trim(Tail(r))
  ELSE IF r # <<>> /\ r[Len(r)] = Newline THEN Trim(SubSeq(r, 1, Len(r) - 1))
  ELSE r

cleanedResponse(response) == Trim(StripClosingFence(StripOpeningFence(response)))

\* JSON.parse(text): the value, or a SyntaxError.
SyntaxError == [ok |-> FALSE]

JSONparse(text) ==
  IF Len(text) = 1 /\ text[1].piece = "body" /\ text[1].valid
  THEN [ok |-> TRUE, value |-> text[1].value]
  ELSE SyntaxError

\* A response in the shapes a completion comes in: bare, in a ```json fence,
\* in a plain fence, in a fence without line breaks, in a fence that is never
\* closed, and after a sentence of prose.
Shapes(body) ==
  { <<body>>,
    <<Fence, Json, Newline, body, Newline, Fence>>,
    <<Fence, Newline, body, Newline, Fence>>,
    <<Fence, body, Fence>>,
    <<Fence, Json, Newline, body>>,
    <<Garbage, Newline, Fence, Json, Newline, body, Newline, Fence>> }

\* The shapes drawn for every JSON value: bare and in a ```json fence.
MainShapes(body) == {<<body>>, <<Fence, Json, Newline, body, Newline, Fence>>}

\* '' (and any other falsy response), and text that is no JSON.
NoResponse == <<>>

Malformed == {<<Garbage>>, <<Fence, Json, Newline, Garbage, Newline, Fence>>}

\* JSON null: it parses, and reading a property of it throws a TypeError.
JsonNull == [null |-> TRUE]

\* ------------------------------------------------------ the action handlers

\* The teams the remote lists, in its order.
ENG == <<"E", "N", "G">>
OPS == <<"O", "P", "S">>

RemoteTeams ==
  << [id |-> "team-ops", key |-> OPS, name |-> <<"O", "p", "s">>],
     [id |-> "team-eng", key |-> ENG, name |-> <<"E", "n", "g">>] >>

\* teams.find(t => t.key.toLowerCase() === key.toLowerCase()): the teams that
\* pass, in listing order; find returns the first, undefined when there is none.
TeamsByKey(key) ==
  SelectSeq(RemoteTeams, LAMBDA t : toLowerCase(t.key) = toLowerCase(key))

\* The k-th issue a search returns: E-1, E-11, E-111, ... each created after
\* the one before it.
RECURSIVE Ones(_)
Ones(k) == IF k = 0 THEN <<>> ELSE Append(Ones(k - 1), "1")

Candidate(k) == <<"E", "-">> \o Ones(k)

\* Entries of a disambiguation list: issues.slice(0, 5).
MaxListed == 5

\* limit: parsed.searchBy.recency ? 10 : 5
RecencyLimit == 10
CriteriaLimit == 5

\* What linearService.searchIssues resolves to: no issue, one, two, or as many
\* as the limit of a search by criteria lets through.
SearchResults ==
  {[k \in 1..n |-> Candidate(k)] : n \in {0, 1, 2, CriteriaLimit}}

\* Array.prototype.slice(0, k)
SliceTo(s, k) == SubSeq(s, 1, IF k < Len(s) THEN k ELSE Len(s))

\* issues.sort((a, b) => b.createdAt - a.createdAt)[0]: the issue created last.
Newest(issues) == issues[Len(issues)]

\* A handler invocation that has just been entered.
Running(action) ==
  [action |-> action, pc |-> "entered", slot |-> 0, called |-> <<>>,
   model |-> "pending", response |-> NoResponse, inTry |-> FALSE,
   fallback |-> FALSE, issue |-> <<>>, searchBy |-> Undefined,
   filters |-> Undefined, searched |-> FALSE, candidates |-> <<>>,
   issueId |-> <<>>, parsed |-> Undefined, updates |-> {},
   teamId |-> Undefined, rest |-> <<>>, issueData |-> Undefined,
   showAll |-> FALSE, stateFilter |-> <<>>, limit |-> 0]

NoData == [given |-> FALSE]

\* await callback?.({text, source}); return {text, success, data}: the handler
\* ends, having sent text.
Respond(h, text, success, data) ==
  /\ handler' = [h EXCEPT !.pc = "returned"]
  /\ emitted' = Append(emitted, text)
  /\ result' = [returned |-> TRUE, success |-> success, text |-> text,
                data |-> data]
  /\ UNCHANGED serviceVars

\* return {text, success, data} with no callback call before it.
Return(h, text, success, data) ==
  /\ handler' = [h EXCEPT !.pc = "returned"]
  /\ emitted' = emitted
  /\ result' = [returned |-> TRUE, success |-> success, text |-> text,
                data |-> data]
  /\ UNCHANGED serviceVars

\* await linearService.<operation>(arg): the handler suspends at pc on the
\* invocation Call makes.
Await(h, Call(_), op, arg, pc) ==
  /\ \E c \in Slots :
       /\ Call(c)
       /\ handler' = [h EXCEPT !.pc = pc, !.slot = c,
                               !.called = Append(@, [op |-> op, arg |-> arg])]
  /\ UNCHANGED <<emitted, result>>

\* An await of something else than a service method (the completion, a lazy
\* field of a fetched object).
Suspend(h, pc) ==
  /\ handler' = [h EXCEPT !.pc = pc]
  /\ UNCHANGED <<emitted, result>>
  /\ UNCHANGED serviceVars

\* The service method the handler awaits has returned or thrown.
Settled(h) == h.slot \in Slots /\ calls[h.slot].pc \in {"returned", "thrown"}

Rejected(h) == calls[h.slot].pc = "thrown"

\* The LinearAPIError the service method threw, as the caught value.
ServiceError(h) == [isError |-> TRUE, message |-> calls[h.slot].error.message]

\* `<prefix>: ${error instanceof Error ? error.message : 'Unknown error'}`
FailureText(prefix, e) ==
  [kind |-> "failed", prefix |-> prefix, detail |-> errorMessage(e)]

Text(kind) == [kind |-> kind]

\* ---------------------------------------------------- GET_LINEAR_ISSUE

\* The values a completion's JSON holds for getIssueTemplate: directId and
\* searchBy (title, team, recency), each present or not; and null.
NoSearchBy == [title |-> FALSE, team |-> <<>>, recency |-> FALSE]

SearchBys ==
  { NoSearchBy,
    [title |-> TRUE, team |-> <<>>, recency |-> FALSE],
    [title |-> TRUE, team |-> OPS, recency |-> FALSE],
    [title |-> FALSE, team |-> <<>>, recency |-> TRUE] }

\* Object.keys(parsed.searchBy).length > 0
HasKeys(searchBy) == searchBy.title \/ searchBy.team # <<>> \/ searchBy.recency

DirectId(id) == [null |-> FALSE, directId |-> id, searchBy |-> NoSearchBy]

getIssueValues ==
  {[null |-> FALSE, directId |-> <<>>, searchBy |-> sb] : sb \in SearchBys}
    \cup {DirectId(OtherIssue),
          [null |-> FALSE, directId |-> OtherIssue, searchBy |-> NoSearchBy],
          JsonNull}

getIssueCompletions ==
  {NoResponse} \cup Malformed \cup Shapes(Body(DirectId(OtherIssue)))
    \cup UNION {MainShapes(Body(v)) : v \in getIssueValues}

\* The outer catch: callback with the failure text, return success: false.
getIssueCaught(h, e) ==
  Respond(h, FailureText("Failed to get issue", e), FALSE, NoData)

\* The end of the try block: nothing was understood.
getIssueNotUnderstood(h) ==
  Respond(h, Text("Could not understand which issue you want to see"), FALSE,
          NoData)

\* catch (parseError): content.match(/(\w+-\d+)/), and with a match
\* linearService.getIssue(issueMatch[1]); without one, the end of the try
\* block.  Whatever the try block threw lands here.
getIssueFallback(h) ==
  LET found == issueMatch(message)
      caught == [h EXCEPT !.fallback = TRUE, !.inTry = FALSE]
  IN IF found # <<>>
     THEN Await(caught, LAMBDA c : getIssue(c, found), "getIssue", found,
                "getIssue")
     ELSE getIssueNotUnderstood(caught)

\* if (!response) that gives up without looking at the request text.
getIssueNoResponseThrows(h) ==
  getIssueCaught(h, NewError("Could not understand issue reference"))

\* if (!response): the regex on the request text, then getIssue on the match
\* or an Error for the outer catch.
getIssueNoResponse(h) ==
  LET found == issueMatch(message)
  IN IF found # <<>>
     THEN Await([h EXCEPT !.fallback = TRUE], LAMBDA c : getIssue(c, found),
                "getIssue", found, "getIssue")
     ELSE getIssueCaught(h, NewError("Could not understand issue reference"))

\* The filters of a search by criteria: the team named, else the default team.
getIssueFilters(searchBy) ==
  [team |-> IF searchBy.team # <<>> THEN searchBy.team ELSE defaultTeamKey,
   limit |-> IF searchBy.recency THEN RecencyLimit ELSE CriteriaLimit]

\* handler(runtime, message, state, options, callback) up to its first await.
getIssueHandler(text) ==
  /\ handler.pc = "idle"
  /\ message' = text
  /\ LET h == Running("GET_LINEAR_ISSUE")
     IN IF ~HasService
        THEN getIssueCaught(h, NewError("Linear service not available"))
        ELSE IF text = <<>>
        THEN Respond(h, Text("Please specify which issue you want to see."),
                     FALSE, NoData)
        ELSE Suspend(h, "useModel")
  /\ options' = NoOptions
  /\ UNCHANGED defaultTeamKey

\* runtime.useModel settled: the handler goes on to its next await or its end.
getIssueCompletion ==
  /\ handler.action = "GET_LINEAR_ISSUE"
  /\ handler.pc = "useModel"
  /\ \/ \E e \in Thrown :
          getIssueCaught([handler EXCEPT !.model = "rejected"], e)
     \/ \E response \in getIssueCompletions :
          LET h == [handler EXCEPT !.model = "resolved", !.response = response]
              parsed == JSONparse(cleanedResponse(response))
          IN IF response = NoResponse THEN getIssueNoResponse(h)
             ELSE IF ~parsed.ok THEN getIssueFallback(h)
             ELSE IF parsed.value.null THEN getIssueFallback(h)
             ELSE IF parsed.value.directId # <<>>
             THEN Await([h EXCEPT !.inTry = TRUE],
                        LAMBDA c : getIssue(c, parsed.value.directId),
                        "getIssue", parsed.value.directId, "getIssue")
             ELSE IF HasKeys(parsed.value.searchBy)
             THEN Await([h EXCEPT !.inTry = TRUE,
                                  !.searchBy = parsed.value.searchBy,
                                  !.filters = getIssueFilters(parsed.value.searchBy)],
                        searchIssues, "searchIssues",
                        getIssueFilters(parsed.value.searchBy), "searchIssues")
             ELSE getIssueNotUnderstood(h)
  /\ UNCHANGED <<defaultTeamKey, message, options>>

\* linearService.getIssue settled: formatIssueResponse starts on the issue, or
\* the rejection is caught.
getIssueFetched ==
  /\ handler.action = "GET_LINEAR_ISSUE"
  /\ handler.pc = "getIssue"
  /\ Settled(handler)
  /\ IF Rejected(handler)
     THEN IF handler.inTry THEN getIssueFallback(handler)
          ELSE getIssueCaught(handler, ServiceError(handler))
     ELSE Suspend([handler EXCEPT !.issue = calls[handler.slot].arg], "format")
  /\ UNCHANGED <<defaultTeamKey, message, options>>

\* formatIssueResponse: the issue's assignee, state, team, labels and project
\* were fetched, the issue is sent and returned; or one of the fetches threw.
formatIssueResponse ==
  /\ handler.action = "GET_LINEAR_ISSUE"
  /\ handler.pc = "format"
  /\ \/ Respond(handler, [kind |-> "issue", issue |-> handler.issue], TRUE,
                [given |-> TRUE, issue |-> handler.issue])
     \/ \E e \in Thrown :
          IF handler.inTry THEN getIssueFallback(handler)
          ELSE getIssueCaught(handler, e)
  /\ UNCHANGED <<defaultTeamKey, message, options>>

\* getIssueSearched taking the first of several issues instead of asking.
getIssueSearchedPickingFirst ==
  /\ handler.action = "GET_LINEAR_ISSUE"
  /\ handler.pc = "searchIssues"
  /\ Settled(handler)
  /\ IF Rejected(handler) THEN getIssueFallback(handler)
     ELSE \E issues \in SearchResults :
            LET h == [handler EXCEPT !.searched = TRUE, !.candidates = issues]
            IN IF Len(issues) = 0
               THEN Respond(h, Text("No issues found matching your criteria."),
                            FALSE, NoData)
               ELSE IF h.searchBy.recency
               THEN Suspend([h EXCEPT !.issue = Newest(issues)], "format")
               ELSE Suspend([h EXCEPT !.issue = issues[1]], "format")
  /\ UNCHANGED <<defaultTeamKey, message, options>>

\* linearService.searchIssues settled: no issue is reported, the newest issue
\* is taken when the criteria ask for recency, a single issue is taken, and
\* several are listed.
getIssueSearched ==
  /\ handler.action = "GET_LINEAR_ISSUE"
  /\ handler.pc = "searchIssues"
  /\ Settled(handler)
  /\ IF Rejected(handler) THEN getIssueFallback(handler)
     ELSE \E issues \in SearchResults :
            LET h == [handler EXCEPT !.searched = TRUE, !.candidates = issues]
            IN IF Len(issues) = 0
               THEN Respond(h, Text("No issues found matching your criteria."),
                            FALSE, NoData)
               ELSE IF h.searchBy.recency
               THEN Suspend([h EXCEPT !.issue = Newest(issues)], "format")
               ELSE IF Len(issues) = 1
               THEN Suspend([h EXCEPT !.issue = issues[1]], "format")
               ELSE Suspend(h, "states")
  /\ UNCHANGED <<defaultTeamKey, message, options>>

\* Promise.all over issues.slice(0, 5) of each issue's state settled: the
\* list is sent and returned with multipleResults; or a fetch threw.
getIssueListed ==
  /\ handler.action = "GET_LINEAR_ISSUE"
  /\ handler.pc = "states"
  /\ \/ Respond(handler,
                [kind |-> "clarify", count |-> Len(handler.candidates),
                 listed |-> SliceTo(handler.candidates, MaxListed)],
                TRUE,
                [given |-> TRUE, multipleResults |-> TRUE,
                 issues |-> SliceTo(handler.candidates, MaxListed)])
     \/ \E e \in Thrown : getIssueFallback(handler)
  /\ UNCHANGED <<defaultTeamKey, message, options>>

\* --------------------------------------------------- DELETE_LINEAR_ISSUE

\* The id the remote keeps for the issue with this identifier (issue.id).
StableId(identifier) == <<"id", ":">> \o identifier

\* async deleteIssue(issueId): archives the issue at the remote
\* (client.archiveIssue) and logs delete_issue under the issue's id; a
\* rejection is logged and wrapped like that of any other operation.
deleteIssue(c, issueId) == Invoke(c, "deleteIssue", issueId)

deleteIssueSettled(c) ==
  /\ Awaiting(c, "deleteIssue", 1)
  /\ \/ Succeed(c, "delete_issue", "issue", StableId(calls[c].arg), "archived")
     \/ \E e \in Thrown :
          Fail(c, e, "delete_issue", "issue", calls[c].arg,
               "Failed to delete issue")

\* _options: none, or an issueId.
IssueOptions == {NoOptions, [given |-> TRUE, issueId |-> OtherIssue]}

\* The values a completion's JSON holds for deleteIssueTemplate.
deleteIssueValues ==
  {[null |-> FALSE, issueId |-> OtherIssue], [null |-> FALSE, issueId |-> <<>>],
   JsonNull}

deleteIssueCompletions ==
  {NoResponse} \cup Malformed
    \cup UNION {MainShapes(Body(v)) : v \in deleteIssueValues}

\* The outer catch.
deleteIssueCaught(h, e) ==
  Respond(h, FailureText("Failed to delete issue", e), FALSE, NoData)

\* const issue = await linearService.getIssue(issueId)
deleteIssueFetch(h, issueId) ==
  Await([h EXCEPT !.issueId = issueId], LAMBDA c : getIssue(c, issueId),
        "getIssue", issueId, "getIssue")

\* catch (parseError): content.match(/(\w+-\d+)/); without a match the handler
\* asks for an issue ID, with one it goes on with issueMatch[1].
deleteIssueFallback(h) ==
  LET found == issueMatch(message)
      caught == [h EXCEPT !.fallback = TRUE]
  IN IF found = <<>>
     THEN Respond(caught, Text("Please specify an issue ID (e.g., ENG-123) to delete."),
                  FALSE, NoData)
     ELSE deleteIssueFetch(caught, found)

\* handler(runtime, message, state, options, callback) up to its first await.
deleteIssueHandler(text, opts) ==
  /\ handler.pc = "idle"
  /\ message' = text
  /\ options' = opts
  /\ LET h == Running("DELETE_LINEAR_ISSUE")
     IN IF ~HasService
        THEN deleteIssueCaught(h, NewError("Linear service not available"))
        ELSE IF text = <<>>
        THEN Respond(h, Text("Please specify which issue to delete."), FALSE,
                     NoData)
        ELSE IF opts.given
        THEN deleteIssueFetch(h, opts.issueId)
        ELSE Suspend(h, "useModel")
  /\ UNCHANGED defaultTeamKey

\* runtime.useModel settled.
deleteIssueCompletion ==
  /\ handler.action = "DELETE_LINEAR_ISSUE"
  /\ handler.pc = "useModel"
  /\ \/ \E e \in Thrown :
          deleteIssueCaught([handler EXCEPT !.model = "rejected"], e)
     \/ \E response \in deleteIssueCompletions :
          LET h == [handler EXCEPT !.model = "resolved", !.response = response]
              parsed == JSONparse(cleanedResponse(response))
          IN IF response = NoResponse
             THEN deleteIssueCaught(h, NewError("Failed to extract issue identifier"))
             ELSE IF ~parsed.ok THEN deleteIssueFallback(h)
             ELSE IF parsed.value.null THEN deleteIssueFallback(h)
             ELSE IF parsed.value.issueId = <<>> THEN deleteIssueFallback(h)
             ELSE deleteIssueFetch(h, parsed.value.issueId)
  /\ UNCHANGED <<defaultTeamKey, message, options>>

\* deleteIssueFetched reporting the archival without asking the service for it.
deleteIssueFetchedSkipping ==
  /\ handler.action = "DELETE_LINEAR_ISSUE"
  /\ handler.pc = "getIssue"
  /\ Settled(handler)
  /\ IF Rejected(handler)
     THEN deleteIssueCaught(handler, ServiceError(handler))
     ELSE Respond([handler EXCEPT !.issue = calls[handler.slot].arg],
                  [kind |-> "archived", issue |-> calls[handler.slot].arg], TRUE,
                  [given |-> TRUE, issueId |-> StableId(calls[handler.slot].arg),
                   identifier |-> calls[handler.slot].arg, archived |-> TRUE])
  /\ UNCHANGED <<defaultTeamKey, message, options>>

\* deleteIssueFetched asking for the archival whether the fetch failed or not.
deleteIssueFetchedRegardless ==
  /\ handler.action = "DELETE_LINEAR_ISSUE"
  /\ handler.pc = "getIssue"
  /\ Settled(handler)
  /\ Await([handler EXCEPT !.issue = calls[handler.slot].arg],
           LAMBDA c : deleteIssue(c, handler.issueId), "deleteIssue",
           handler.issueId, "deleteIssue")
  /\ UNCHANGED <<defaultTeamKey, message, options>>

\* linearService.getIssue settled: await linearService.deleteIssue(issueId).
deleteIssueFetched ==
  /\ handler.action = "DELETE_LINEAR_ISSUE"
  /\ handler.pc = "getIssue"
  /\ Settled(handler)
  /\ IF Rejected(handler)
     THEN deleteIssueCaught(handler, ServiceError(handler))
     ELSE Await([handler EXCEPT !.issue = calls[handler.slot].arg],
                LAMBDA c : deleteIssue(c, handler.issueId), "deleteIssue",
                handler.issueId, "deleteIssue")
  /\ UNCHANGED <<defaultTeamKey, message, options>>

\* linearService.deleteIssue settled: the archival is confirmed.
deleteIssueArchived ==
  /\ handler.action = "DELETE_LINEAR_ISSUE"
  /\ handler.pc = "deleteIssue"
  /\ Settled(handler)
  /\ IF Rejected(handler)
     THEN deleteIssueCaught(handler, ServiceError(handler))
     ELSE Respond(handler, [kind |-> "archived", issue |-> handler.issue], TRUE,
                  [given |-> TRUE, issueId |-> StableId(handler.issue),
                   identifier |-> handler.issue, archived |-> TRUE])
  /\ UNCHANGED <<defaultTeamKey, message, options>>

\* --------------------------------------------------- UPDATE_LINEAR_ISSUE

\* What the remote lists: its users, the workflow states and the labels of a
\* team.
RemoteUsers ==
  << [id |-> "user-al", name |-> <<"A", "l">>, email |-> <<"a", "l", "@", "x">>] >>

RemoteStates ==
  << [id |-> "state-done", name |-> <<"D", "o", "n", "e">>,
      type |-> <<"c", "o", "m", "p", "l", "e", "t", "e", "d">>] >>

RemoteLabels == << [id |-> "label-bug", name |-> <<"B", "u", "g">>] >>

\* The least element of a non-empty set of numbers.
Least(S) == CHOOSE i \in S : \A j \in S : i <= j

Quotes == {"'", "\""}

TitleTo == <<"t", "i", "t", "l", "e", " ", "t", "o", " ">>

\* content.match(/title to ["'](.+?)["']/i)[1]: the text between the quote
\* after the leftmost "title to " and the first quote that leaves a character
\* in between; <<>> is null.
titleMatch(content) ==
  LET low == toLowerCase(content)
      open(i) == i + Len(TitleTo)
      closes(i) == {j \in (open(i) + 2)..Len(content) : content[j] \in Quotes}
      starts == {i \in 1..Len(content) :
                   /\ HoldsAt(low, i, TitleTo)
                   /\ open(i) <= Len(content)
                   /\ content[open(i)] \in Quotes
                   /\ closes(i) # {}}
  IN IF starts = {} THEN <<>>
     ELSE SubSeq(content, open(Least(starts)) + 1, Least(closes(Least(starts))) - 1)

Priority == <<"p", "r", "i", "o", "r", "i", "t", "y", " ">>

\* The longest run of \w that starts at i.
WordAt(s, i) == SubSeq(s, i, RunEnd(s, i, WordChars) - 1)

\* content.match(/priority (?:to |as )?(\w+)/i)[1]: the word after the
\* leftmost "priority ", past a "to " or an "as " when a word follows that.
priorityMatch(content) ==
  LET low == toLowerCase(content)
      after(i) == i + Len(Priority)
      skipped(i) ==
        IF (HoldsAt(low, after(i), <<"t", "o", " ">>)
              \/ HoldsAt(low, after(i), <<"a", "s", " ">>))
             /\ WordAt(content, after(i) + 3) # <<>>
        THEN after(i) + 3 ELSE after(i)
      starts == {i \in 1..Len(content) :
                   HoldsAt(low, i, Priority) /\ WordAt(content, skipped(i)) # <<>>}
  IN IF starts = {} THEN <<>> ELSE WordAt(content, skipped(Least(starts)))

\* priorityMap[word.toLowerCase()]: 0 stands for undefined.
priorityMap(word) ==
  LET low == toLowerCase(word)
  IN CASE low = <<"u", "r", "g", "e", "n", "t">> -> 1
       [] low = <<"h", "i", "g", "h">> -> 2
       [] low = <<"n", "o", "r", "m", "a", "l">> -> 3
       [] low = <<"m", "e", "d", "i", "u", "m">> -> 3
       [] low = <<"l", "o", "w">> -> 4
       [] OTHER -> 0

\* Request texts that name what to update in words.
UpdateTexts ==
  Texts \cup
    { <<"E", "-", "1", " ", "p", "r", "i", "o", "r", "i", "t", "y", " ", "t",
        "o", " ", "L", "o", "w">>,
      <<"E", "-", "1", " ", "T", "i", "t", "l", "e", " ", "t", "o", " ", "'",
        "E", "'">> }

\* parsed.updates: the fields that are copied (title stands for title,
\* description and priority), teamKey, assignee, status and labels, each
\* present or not.
NoUpdates ==
  [title |-> FALSE, teamKey |-> <<>>, assignee |-> <<>>, status |-> <<>>,
   labels |-> FALSE, labelNames |-> <<>>]

UpdateSets ==
  { NoUpdates,
    [NoUpdates EXCEPT !.title = TRUE],
    [NoUpdates EXCEPT !.teamKey = <<"e", "n", "g">>],
    [NoUpdates EXCEPT !.teamKey = <<"X">>],
    [NoUpdates EXCEPT !.assignee = <<"@", "a", "l">>],
    [NoUpdates EXCEPT !.status = <<"d", "o", "n", "e">>],
    [NoUpdates EXCEPT !.labels = TRUE, !.labelNames = << <<"b", "u", "g">> >>],
    [NoUpdates EXCEPT !.title = TRUE, !.teamKey = ENG,
                      !.status = <<"D", "O", "N", "E">>, !.labels = TRUE] }

updateIssueValues ==
  {[null |-> FALSE, issueId |-> OtherIssue, updates |-> u] : u \in UpdateSets}
    \cup {[null |-> FALSE, issueId |-> <<>>, updates |-> NoUpdates], JsonNull}

updateIssueCompletions ==
  {NoResponse} \cup Malformed
    \cup {<<Body(v)>> : v \in updateIssueValues}
    \cup MainShapes(Body([null |-> FALSE, issueId |-> OtherIssue,
                          updates |-> [NoUpdates EXCEPT !.title = TRUE]]))

\* The outer catch.
updateIssueCaught(h, e) ==
  Respond(h, FailureText("Failed to update issue", e), FALSE, NoData)

\* updateIssueApply without the test of Object.keys(updates).length.
updateIssueApplyAlways(h) ==
  Await(h, LAMBDA c : updateIssue(c, h.issueId), "updateIssue", h.issueId,
        "updateIssue")

\* After the try block: without a key in updates the handler asks for one,
\* else it awaits linearService.updateIssue(issueId, updates).
updateIssueApply(h) ==
  IF h.updates = {}
  THEN Respond(h, Text("No valid updates found."), FALSE, NoData)
  ELSE Await(h, LAMBDA c : updateIssue(c, h.issueId), "updateIssue", h.issueId,
             "updateIssue")

\* catch (parseError): the identifier regex; without a match the handler asks
\* for an issue ID; with one, the title and priority regexes add to updates,
\* which keeps the keys the try block had set before it threw.
updateIssueFallback(h) ==
  LET found == issueMatch(message)
      caught == [h EXCEPT !.fallback = TRUE]
      keys == (IF titleMatch(message) # <<>> THEN {"title"} ELSE {})
                \cup (IF priorityMap(priorityMatch(message)) # 0
                      THEN {"priority"} ELSE {})
  IN IF found = <<>>
     THEN Respond(caught, Text("Please specify an issue ID (e.g., ENG-123) to update."),
                  FALSE, NoData)
     ELSE updateIssueApply([caught EXCEPT !.issueId = found,
                                          !.updates = @ \cup keys])

\* The try block from its labels part on.
updateIssueLabelsPart(h) ==
  IF h.parsed.labels
  THEN Await(h, LAMBDA c : getLabels(c, h.teamId), "getLabels", h.teamId,
             "getLabels")
  ELSE updateIssueApply(h)

\* ... from its status part on.
updateIssueStatusPart(h) ==
  IF h.parsed.status # <<>>
  THEN Await(h, LAMBDA c : getIssue(c, h.issueId), "getIssue", h.issueId,
             "getIssue")
  ELSE updateIssueLabelsPart(h)

\* ... from its assignee part on.
updateIssueAssigneePart(h) ==
  IF h.parsed.assignee # <<>>
  THEN Await(h, getUsers, "getUsers", Undefined, "getUsers")
  ELSE updateIssueStatusPart(h)

\* ... from its team part on.
updateIssueTeamPart(h) ==
  IF h.parsed.teamKey # <<>>
  THEN Await(h, getTeams, "getTeams", Undefined, "getTeams")
  ELSE updateIssueAssigneePart(h)

\* handler(runtime, message, state, options, callback) up to its first await.
updateIssueHandler(text) ==
  /\ handler.pc = "idle"
  /\ message' = text
  /\ options' = NoOptions
  /\ LET h == [Running("UPDATE_LINEAR_ISSUE") EXCEPT !.updates = {}]
     IN IF ~HasService
        THEN updateIssueCaught(h, NewError("Linear service not available"))
        ELSE IF text = <<>>
        THEN Respond(h, Text("Please provide update instructions for the issue."),
                     FALSE, NoData)
        ELSE Suspend(h, "useModel")
  /\ UNCHANGED defaultTeamKey

\* runtime.useModel settled.
updateIssueCompletion ==
  /\ handler.action = "UPDATE_LINEAR_ISSUE"
  /\ handler.pc = "useModel"
  /\ \/ \E e \in Thrown :
          updateIssueCaught([handler EXCEPT !.model = "rejected"], e)
     \/ \E response \in updateIssueCompletions :
          LET h == [handler EXCEPT !.model = "resolved", !.response = response]
              parsed == JSONparse(cleanedResponse(response))
          IN IF response = NoResponse
             THEN updateIssueCaught(h, NewError("Failed to extract update information"))
             ELSE IF ~parsed.ok THEN updateIssueFallback(h)
             ELSE IF parsed.value.null THEN updateIssueFallback(h)
             ELSE IF parsed.value.issueId = <<>> THEN updateIssueFallback(h)
             ELSE updateIssueTeamPart(
                    [h EXCEPT !.issueId = parsed.value.issueId,
                              !.parsed = parsed.value.updates,
                              !.updates = IF parsed.value.updates.title
                                          THEN {"title"} ELSE {}])
  /\ UNCHANGED <<defaultTeamKey, message, options>>

\* The handler resumes at pc with the service method it awaited settled.
updateIssueResumes(pc) ==
  /\ handler.action = "UPDATE_LINEAR_ISSUE"
  /\ handler.pc = pc
  /\ Settled(handler)

\* linearService.getTeams settled: teams.find by key.
updateIssueTeams ==
  /\ updateIssueResumes("getTeams")
  /\ IF Rejected(handler) THEN updateIssueFallback(handler)
     ELSE LET found == TeamsByKey(handler.parsed.teamKey)
          IN updateIssueAssigneePart(
               IF found # <<>>
               THEN [handler EXCEPT !.teamId = found[1].id,
                                    !.updates = @ \cup {"teamId"}]
               ELSE handler)
  /\ UNCHANGED <<defaultTeamKey, message, options>>

\* parsed.updates.assignee.replace(/^@/, '')
cleanAssignee(assignee) ==
  IF assignee # <<>> /\ assignee[1] = "@" THEN Tail(assignee) ELSE assignee

\* linearService.getUsers settled: users.find by email or name.
updateIssueUsers ==
  /\ updateIssueResumes("getUsers")
  /\ IF Rejected(handler) THEN updateIssueFallback(handler)
     ELSE LET clean == cleanAssignee(handler.parsed.assignee)
              found == SelectSeq(RemoteUsers,
                         LAMBDA u : u.email = clean
                                      \/ includes(toLowerCase(u.name),
                                                  toLowerCase(clean)))
          IN updateIssueStatusPart(
               IF found # <<>>
               THEN [handler EXCEPT !.updates = @ \cup {"assigneeId"}]
               ELSE handler)
  /\ UNCHANGED <<defaultTeamKey, message, options>>

\* linearService.getIssue settled: await issue.team.
updateIssueFetched ==
  /\ updateIssueResumes("getIssue")
  /\ IF Rejected(handler) THEN updateIssueFallback(handler)
     ELSE Suspend(handler, "issue.team")
  /\ UNCHANGED <<defaultTeamKey, message, options>>

\* issue.team settled (the issue's team, or none): with a team id, await
\* linearService.getWorkflowStates(teamId).
updateIssueTeamOfIssue ==
  /\ handler.action = "UPDATE_LINEAR_ISSUE"
  /\ handler.pc = "issue.team"
  /\ \/ \E e \in Thrown : updateIssueFallback(handler)
     \/ \E issueTeam \in {Undefined, RemoteTeams[1].id} :
          LET teamId == IF handler.teamId # Undefined THEN handler.teamId
                        ELSE issueTeam
          IN IF teamId = Undefined THEN updateIssueLabelsPart(handler)
             ELSE Await(handler, LAMBDA c : getWorkflowStates(c, teamId),
                        "getWorkflowStates", teamId, "getWorkflowStates")
  /\ UNCHANGED <<defaultTeamKey, message, options>>

\* linearService.getWorkflowStates settled: states.find by name or type.
updateIssueStates ==
  /\ updateIssueResumes("getWorkflowStates")
  /\ IF Rejected(handler) THEN updateIssueFallback(handler)
     ELSE LET status == toLowerCase(handler.parsed.status)
              found == SelectSeq(RemoteStates,
                         LAMBDA st : toLowerCase(st.name) = status
                                       \/ toLowerCase(st.type) = status)
          IN updateIssueLabelsPart(
               IF found # <<>>
               THEN [handler EXCEPT !.updates = @ \cup {"stateId"}]
               ELSE handler)
  /\ UNCHANGED <<defaultTeamKey, message, options>>

\* linearService.getLabels settled: updates.labelIds is set, to the ids of the
\* labels found.
updateIssueLabels ==
  /\ updateIssueResumes("getLabels")
  /\ IF Rejected(handler) THEN updateIssueFallback(handler)
     ELSE updateIssueApply([handler EXCEPT !.updates = @ \cup {"labelIds"}])
  /\ UNCHANGED <<defaultTeamKey, message, options>>

\* linearService.updateIssue settled: the update is confirmed.
updateIssueUpdated ==
  /\ updateIssueResumes("updateIssue")
  /\ IF Rejected(handler)
     THEN updateIssueCaught(handler, ServiceError(handler))
     ELSE Respond(handler, [kind |-> "updated", issue |-> handler.issueId,
                            updates |-> handler.updates], TRUE,
                  [given |-> TRUE, identifier |-> handler.issueId,
                   updates |-> handler.updates])
  /\ UNCHANGED <<defaultTeamKey, message, options>>

\* -------------------------------------------------- SEARCH_LINEAR_ISSUES

\* parsed.limit || 10, and filters.limit || 10
DefaultSearchLimit == 10

\* Request texts of a search: none, ones that ask for all issues in words, ones
\* that hold "all" without a kind of issue or a kind of issue without "all",
\* and one that holds "all" inside another word.
SearchTexts ==
  { <<>>,
    <<"a", "l", "l", " ", "i", "s", "s", "u", "e", "s">>,
    <<"A", "l", "l", " ", "B", "u", "g", "s">>,
    <<"a", "l", "l">>,
    <<"t", "a", "s", "k", "s">>,
    <<"c", "a", "l", "l", " ", "t", "a", "s", "k">>,
    <<"E", "-", "1">> }

\* _options: none, a limit, or filters (with a team or without one).
NoFilters == [given |-> FALSE]

SearchOptions ==
  { NoOptions,
    [given |-> TRUE, filters |-> NoFilters, limit |-> 1],
    [given |-> TRUE, filters |-> [given |-> TRUE, team |-> <<>>, limit |-> 0],
     limit |-> 0],
    [given |-> TRUE, filters |-> [given |-> TRUE, team |-> OPS, limit |-> 2],
     limit |-> 0],
    [given |-> TRUE, filters |-> [given |-> TRUE, team |-> ENG, limit |-> 0],
     limit |-> 1] }

Me == <<"M", "e">>

\* A JSON string and a JSON number, as an element of parsed.priorities.
JsonString(chars) == [type |-> "string", chars |-> chars]

JsonNumber(n) == [type |-> "number", n |-> n]

\* The priorities a completion names: a word in another case, a digit string,
\* an unknown word, a mix of them, and a number.
PriorityLists ==
  { <<JsonString(<<"H", "i", "g", "h">>)>>,
    <<JsonString(<<"4">>)>>,
    <<JsonString(<<"X">>)>>,
    <<JsonString(<<"u", "r", "g", "e", "n", "t">>), JsonString(<<"X">>),
      JsonString(<<"n", "o", "r", "m", "a", "l">>), JsonString(<<"L", "O", "W">>)>>,
    <<JsonString(<<"1">>), JsonString(<<"2">>), JsonString(<<"3">>),
      JsonString(<<"5">>)>>,
    <<JsonNumber(2)>> }

\* The values a completion's JSON holds for searchTemplate: teams, assignees,
\* hasAssignee (FALSE is false, TRUE anything else), limit (0 is none) and
\* priorities; the query, states and labels are copied and stand in query.
searchIssuesValues ==
  {[null |-> FALSE, teams |-> t, assignees |-> a, hasAssignee |-> TRUE,
    limit |-> 0, priorities |-> <<>>] :
     t \in {<<>>, <<OPS>>, <<ENG>>, <<OPS, ENG>>}, a \in {<<>>, <<Me>>}}
    \cup {[null |-> FALSE, teams |-> <<>>, assignees |-> <<>>, hasAssignee |-> TRUE,
           limit |-> 0, priorities |-> p] : p \in PriorityLists}
    \cup {[null |-> FALSE, teams |-> <<OPS>>, assignees |-> <<Me>>,
           hasAssignee |-> TRUE, limit |-> 3, priorities |-> p] :
            p \in {<<JsonString(<<"X">>)>>, <<JsonNumber(2)>>}}
    \cup {[null |-> FALSE, teams |-> <<>>, assignees |-> <<ENG, Me>>,
           hasAssignee |-> FALSE, limit |-> 3, priorities |-> <<>>],
          JsonNull}

searchIssuesCompletions ==
  {NoResponse} \cup Malformed
    \cup UNION {MainShapes(Body(v)) : v \in searchIssuesValues}

\* currentUser.email of the user getCurrentUser resolved to.
Email(user) == <<"@", user>>

\* The outer catch.
searchIssuesCaught(h, e) ==
  Respond(h, FailureText("Failed to search issues", e), FALSE, NoData)

\* const searchingAllIssues = content.toLowerCase().includes('all') &&
\*   (...includes('issue') || ...includes('bug') || ...includes('task'))
searchingAllIssues(content) ==
  LET low == toLowerCase(content)
  IN /\ includes(low, <<"a", "l", "l">>)
     /\ \/ includes(low, <<"i", "s", "s", "u", "e">>)
        \/ includes(low, <<"b", "u", "g">>)
        \/ includes(low, <<"t", "a", "s", "k">>)

\* if (!filters.team): the default team key, when one is set and the request
\* does not ask for all issues.
searchIssuesDefaultTeam(filters, content) ==
  IF filters.team = <<>> /\ defaultTeamKey # <<>> /\ ~searchingAllIssues(content)
  THEN [filters EXCEPT !.team = defaultTeamKey]
  ELSE filters

\* filters.limit = (_options?.limit as number) || filters.limit || 10
searchIssuesLimit(filters, opts) ==
  [filters EXCEPT !.limit =
     IF opts.given /\ opts.limit # 0 THEN opts.limit
     ELSE IF @ # 0 THEN @ ELSE DefaultSearchLimit]

\* From the default team filter to await linearService.searchIssues(filters).
searchIssuesSearch(h, filters, content, opts) ==
  LET passed == searchIssuesLimit(searchIssuesDefaultTeam(filters, content), opts)
  IN Await([h EXCEPT !.filters = passed], searchIssues, "searchIssues", passed,
           "searchIssues")

\* filters = { query: content }
KeywordSearch ==
  [query |-> "content", team |-> <<>>, limit |-> 0, assignee |-> <<>>,
   priority |-> <<>>]

\* priorityMap[key]: 1..4 for a priority word or a digit string, 0 (undefined)
\* for any other key.
searchPriorityMap(key) ==
  CASE key \in {<<"u", "r", "g", "e", "n", "t">>, <<"1">>} -> 1
    [] key \in {<<"h", "i", "g", "h">>, <<"2">>} -> 2
    [] key \in {<<"n", "o", "r", "m", "a", "l">>, <<"3">>} -> 3
    [] key \in {<<"l", "o", "w">>, <<"4">>} -> 4
    [] OTHER -> 0

\* p.toLowerCase() is a TypeError for an element that is no string.
PrioritiesThrow(priorities) ==
  \E i \in DOMAIN priorities : priorities[i].type # "string"

\* parsed.priorities.map(p => priorityMap[p.toLowerCase()]).filter(Boolean)
searchIssuesPriorities(priorities) ==
  SelectSeq([i \in DOMAIN priorities |->
               searchPriorityMap(toLowerCase(priorities[i].chars))],
            LAMBDA n : n # 0)

\* The for loop over parsed.assignees up to its next "me": the assignees
\* pushed, and the ones still to look at.
RECURSIVE AssigneesUpToMe(_, _)
AssigneesUpToMe(done, rest) ==
  IF rest = <<>> THEN [done |-> done, rest |-> <<>>, me |-> FALSE]
  ELSE IF toLowerCase(rest[1]) = <<"m", "e">>
  THEN [done |-> done, rest |-> Tail(rest), me |-> TRUE]
  ELSE AssigneesUpToMe(Append(done, rest[1]), Tail(rest))

\* The try block from the assignees loop on: getCurrentUser for a "me", and
\* after the loop hasAssignee, the priorities (a TypeError there lands in the
\* catch block's { query: content }), the first of parsed.teams, and the search.
searchIssuesAssignees(h, processed) ==
  LET loop == AssigneesUpToMe(processed, h.rest)
      parsed == h.parsed
      built == [h.filters EXCEPT
                  !.assignee = loop.done,
                  !.query = IF parsed.hasAssignee THEN @ ELSE "parsed unassigned",
                  !.priority = searchIssuesPriorities(parsed.priorities),
                  !.team = IF parsed.teams # <<>> THEN parsed.teams[1] ELSE <<>>]
  IN IF loop.me
     THEN Await([h EXCEPT !.filters.assignee = loop.done, !.rest = loop.rest],
                getCurrentUser, "getCurrentUser", Undefined, "getCurrentUser")
     ELSE IF PrioritiesThrow(parsed.priorities)
     THEN searchIssuesSearch([h EXCEPT !.rest = <<>>, !.fallback = TRUE],
                             KeywordSearch, message, options)
     ELSE searchIssuesSearch([h EXCEPT !.rest = <<>>], built, message, options)

\* handler(runtime, message, state, options, callback) up to its first await.
searchIssuesHandler(text, opts) ==
  /\ handler.pc = "idle"
  /\ message' = text
  /\ options' = opts
  /\ LET h == Running("SEARCH_LINEAR_ISSUES")
     IN IF ~HasService
        THEN searchIssuesCaught(h, NewError("Linear service not available"))
        ELSE IF text = <<>>
        THEN Respond(h, Text("Please provide search criteria for issues."),
                     FALSE, NoData)
        ELSE IF opts.given /\ opts.filters.given
        THEN searchIssuesSearch(h,
               [query |-> "options", team |-> opts.filters.team,
                limit |-> opts.filters.limit, assignee |-> <<>>,
                priority |-> <<>>],
               text, opts)
        ELSE Suspend(h, "useModel")
  /\ UNCHANGED defaultTeamKey

\* runtime.useModel settled.
searchIssuesCompletion ==
  /\ handler.action = "SEARCH_LINEAR_ISSUES"
  /\ handler.pc = "useModel"
  /\ \/ \E e \in Thrown :
          searchIssuesCaught([handler EXCEPT !.model = "rejected"], e)
     \/ \E response \in searchIssuesCompletions :
          LET h == [handler EXCEPT !.model = "resolved", !.response = response]
              parsed == JSONparse(cleanedResponse(response))
          IN IF response = NoResponse \/ ~parsed.ok
             THEN searchIssuesSearch(h, KeywordSearch, message, options)
             ELSE IF parsed.value.null
             THEN searchIssuesSearch([h EXCEPT !.parsed = parsed.value],
                                     KeywordSearch, message, options)
             ELSE searchIssuesAssignees(
                    [h EXCEPT !.inTry = TRUE, !.parsed = parsed.value,
                              !.rest = parsed.value.assignees,
                              !.filters = [query |-> "parsed", team |-> <<>>,
                                           limit |-> parsed.value.limit,
                                           assignee |-> <<>>,
                                           priority |-> <<>>]],
                    <<>>)
  /\ UNCHANGED <<defaultTeamKey, message, options>>

\* linearService.getCurrentUser settled: the email is pushed, or "me" is
\* skipped; the loop goes on.
searchIssuesCurrentUser ==
  /\ handler.action = "SEARCH_LINEAR_ISSUES"
  /\ handler.pc = "getCurrentUser"
  /\ Settled(handler)
  /\ searchIssuesAssignees(handler,
       IF Rejected(handler) THEN handler.filters.assignee
       ELSE Append(handler.filters.assignee, Email(calls[handler.slot].value)))
  /\ UNCHANGED <<defaultTeamKey, message, options>>

\* linearService.searchIssues settled: no issue is reported as a success, and
\* the issues found are listed once their states and assignees are fetched.
searchIssuesFound ==
  /\ handler.action = "SEARCH_LINEAR_ISSUES"
  /\ handler.pc = "searchIssues"
  /\ Settled(handler)
  /\ IF Rejected(handler) THEN searchIssuesCaught(handler, ServiceError(handler))
     ELSE \E issues \in SearchResults :
            LET h == [handler EXCEPT !.searched = TRUE, !.candidates = issues]
            IN IF Len(issues) = 0
               THEN Respond(h,
                      Text("No issues found matching your search criteria."),
                      TRUE,
                      [given |-> TRUE, issues |-> <<>>, filters |-> h.filters,
                       count |-> 0])
               ELSE Suspend(h, "states")
  /\ UNCHANGED <<defaultTeamKey, message, options>>

\* Promise.all of each issue's state and assignee settled: the list is sent
\* through callback, and the handler awaits the same fields for its data.
searchIssuesListed ==
  /\ handler.action = "SEARCH_LINEAR_ISSUES"
  /\ handler.pc = "states"
  /\ \/ /\ handler' = [handler EXCEPT !.pc = "data"]
        /\ emitted' = Append(emitted, [kind |-> "found",
                                       count |-> Len(handler.candidates),
                                       listed |-> handler.candidates])
        /\ UNCHANGED result
        /\ UNCHANGED serviceVars
     \/ \E e \in Thrown : searchIssuesCaught(handler, e)
  /\ UNCHANGED <<defaultTeamKey, message, options>>

\* The Promise.all of the returned data settled: the result is returned, or
\* the outer catch sends a failure after the list.
searchIssuesData ==
  /\ handler.action = "SEARCH_LINEAR_ISSUES"
  /\ handler.pc = "data"
  /\ \/ Return(handler,
               [kind |-> "found", count |-> Len(handler.candidates)], TRUE,
               [given |-> TRUE, issues |-> handler.candidates,
                filters |-> handler.filters,
                count |-> Len(handler.candidates)])
     \/ \E e \in Thrown : searchIssuesCaught(handler, e)
  /\ UNCHANGED <<defaultTeamKey, message, options>>

\* --------------------------------------------------- CREATE_LINEAR_ISSUE

\* content.length > 100 ? content.substring(0, 100) + '...' : content
TitleLimit == 100

FallbackTitle(content) ==
  IF Len(content) > TitleLimit
  THEN SubSeq(content, 1, TitleLimit) \o <<".", ".", ".">>
  ELSE content

Fix == <<"F", "i", "x">>

\* Request texts of a create: none, and a description.
CreateTexts == {<<>>, Fix}

\* issueData: title ('' is none), priority (0 is none), teamId, assigneeId.
IssueData(title, priority, teamId, assigneeId) ==
  [title |-> title, priority |-> priority, teamId |-> teamId,
   assigneeId |-> assigneeId]

\* _options: none, or issueData with a teamId or without one.
CreateOptions ==
  { NoOptions,
    [given |-> TRUE, issueData |-> IssueData(Fix, 0, "team-eng", Undefined)],
    [given |-> TRUE, issueData |-> IssueData(Fix, 2, Undefined, Undefined)] }

\* The values a completion's JSON holds for createIssueTemplate: title,
\* teamKey, priority and assignee, each present or not; and null.
createIssueValues ==
  {[null |-> FALSE, title |-> Fix, teamKey |-> k, priority |-> p,
    assignee |-> <<>>] :
     k \in {<<>>, ENG, <<"o", "p", "s">>, <<"X">>}, p \in {0, 1}}
    \cup {[null |-> FALSE, title |-> Fix, teamKey |-> <<>>, priority |-> 0,
           assignee |-> <<"a", "l">>],
          [null |-> FALSE, title |-> Fix, teamKey |-> ENG, priority |-> 0,
           assignee |-> <<"X">>],
          [null |-> FALSE, title |-> <<>>, teamKey |-> <<>>, priority |-> 0,
           assignee |-> <<>>],
          JsonNull}

createIssueCompletions ==
  {NoResponse} \cup Malformed
    \cup {<<Body(v)>> : v \in createIssueValues}
    \cup MainShapes(Body([null |-> FALSE, title |-> Fix, teamKey |-> <<>>,
                          priority |-> 0, assignee |-> <<>>]))

\* What linearService.getTeams resolves to: the teams of the workspace, or
\* none in a workspace without a team.
TeamLists == {RemoteTeams, <<>>}

\* The outer catch: the failure is returned; the handler takes no callback.
createIssueCaught(h, e) ==
  Return(h, FailureText("Failed to create issue", e), FALSE, NoData)

\* After the extraction: the checks of title and teamId, then
\* await linearService.createIssue(issueData).
createIssueSubmit(h) ==
  IF h.issueData.title = <<>>
  THEN Return(h, Text("Could not determine issue title. Please provide more details."),
              FALSE, NoData)
  ELSE IF Falsy(h.issueData.teamId)
  THEN Return(h, Text("No Linear teams found."), FALSE, NoData)
  ELSE Await(h, LAMBDA c : createIssue(c, h.issueData.teamId), "createIssue",
             h.issueData, "createIssue")

\* catch (parseError): the title is taken from the request text and the teams
\* are fetched for the first of them.
createIssueFallback(h) ==
  Await([h EXCEPT !.fallback = TRUE, !.inTry = FALSE,
                  !.issueData = IssueData(FallbackTitle(message), 0, Undefined,
                                          Undefined)],
        getTeams, "getTeams", Undefined, "fallbackTeams")

\* if (!issueData.teamId): the teams are fetched for the first of them.
createIssueFirstTeamPart(h) ==
  IF Falsy(h.issueData.teamId)
  THEN Await(h, getTeams, "getTeams", Undefined, "firstTeam")
  ELSE createIssueSubmit([h EXCEPT !.inTry = FALSE])

\* if (parsed.assignee)
createIssueAssigneePart(h) ==
  IF h.parsed.assignee # <<>>
  THEN Await(h, getUsers, "getUsers", Undefined, "getUsers")
  ELSE createIssueFirstTeamPart(h)

\* handler(runtime, message, state, options) up to its first await.
createIssueHandler(text, opts) ==
  /\ handler.pc = "idle"
  /\ message' = text
  /\ options' = opts
  /\ LET h == Running("CREATE_LINEAR_ISSUE")
     IN IF ~HasService
        THEN createIssueCaught(h, NewError("Linear service not available"))
        ELSE IF text = <<>>
        THEN Return(h, Text("Please provide a description for the issue."),
                    FALSE, NoData)
        ELSE IF opts.given
        THEN createIssueSubmit([h EXCEPT !.issueData = opts.issueData])
        ELSE Suspend(h, "useModel")
  /\ UNCHANGED defaultTeamKey

\* runtime.useModel settled.
createIssueCompletion ==
  /\ handler.action = "CREATE_LINEAR_ISSUE"
  /\ handler.pc = "useModel"
  /\ \/ \E e \in Thrown :
          createIssueCaught([handler EXCEPT !.model = "rejected"], e)
     \/ \E response \in createIssueCompletions :
          LET h == [handler EXCEPT !.model = "resolved", !.response = response]
              parsed == JSONparse(cleanedResponse(response))
          IN IF response = NoResponse
             THEN createIssueCaught(h, NewError("Failed to extract issue information"))
             ELSE IF ~parsed.ok THEN createIssueFallback(h)
             ELSE IF parsed.value.null THEN createIssueFallback(h)
             ELSE LET extracted ==
                        [h EXCEPT !.inTry = TRUE, !.parsed = parsed.value,
                                  !.issueData = IssueData(parsed.value.title,
                                                          parsed.value.priority,
                                                          Undefined, Undefined)]
                  IN IF parsed.value.teamKey # <<>>
                     THEN Await(extracted, getTeams, "getTeams", Undefined,
                                "getTeams")
                     ELSE createIssueAssigneePart(extracted)
  /\ UNCHANGED <<defaultTeamKey, message, options>>

\* The handler resumes at pc with the service method it awaited settled.
createIssueResumes(pc) ==
  /\ handler.action = "CREATE_LINEAR_ISSUE"
  /\ handler.pc = pc
  /\ Settled(handler)

\* linearService.getTeams settled for parsed.teamKey: teams.find by key.
createIssueTeams ==
  /\ createIssueResumes("getTeams")
  /\ IF Rejected(handler) THEN createIssueFallback(handler)
     ELSE \E teams \in TeamLists :
            LET found == SelectSeq(teams,
                           LAMBDA t : toLowerCase(t.key)
                                        = toLowerCase(handler.parsed.teamKey))
            IN createIssueAssigneePart(
                 IF found # <<>>
                 THEN [handler EXCEPT !.issueData.teamId = found[1].id]
                 ELSE handler)
  /\ UNCHANGED <<defaultTeamKey, message, options>>

\* linearService.getUsers settled: users.find by email or name.
createIssueUsers ==
  /\ createIssueResumes("getUsers")
  /\ IF Rejected(handler) THEN createIssueFallback(handler)
     ELSE LET found == SelectSeq(RemoteUsers,
                         LAMBDA u : u.email = handler.parsed.assignee
                                      \/ includes(toLowerCase(u.name),
                                                  toLowerCase(handler.parsed.assignee)))
          IN createIssueFirstTeamPart(
               IF found # <<>>
               THEN [handler EXCEPT !.issueData.assigneeId = found[1].id]
               ELSE handler)
  /\ UNCHANGED <<defaultTeamKey, message, options>>

\* The first of the teams linearService.getTeams resolved to, as the teamId.
createIssueFirstOf(h, teams) ==
  IF teams # <<>> THEN [h EXCEPT !.issueData.teamId = teams[1].id] ELSE h

\* linearService.getTeams settled for an issue without a team: teams[0].
createIssueFirstTeam ==
  /\ createIssueResumes("firstTeam")
  /\ IF Rejected(handler) THEN createIssueFallback(handler)
     ELSE \E teams \in TeamLists :
            createIssueSubmit([createIssueFirstOf(handler, teams)
                                 EXCEPT !.inTry = FALSE])
  /\ UNCHANGED <<defaultTeamKey, message, options>>

\* linearService.getTeams settled in the catch block: teams[0]; its rejection
\* is the outer catch's.
createIssueFallbackTeams ==
  /\ createIssueResumes("fallbackTeams")
  /\ IF Rejected(handler) THEN createIssueCaught(handler, ServiceError(handler))
     ELSE \E teams \in TeamLists :
            createIssueSubmit(createIssueFirstOf(handler, teams))
  /\ UNCHANGED <<defaultTeamKey, message, options>>

\* linearService.createIssue settled: the issue is reported in the result.
createIssueCreated ==
  /\ createIssueResumes("createIssue")
  /\ IF Rejected(handler) THEN createIssueCaught(handler, ServiceError(handler))
     ELSE Return([handler EXCEPT !.issue = calls[handler.slot].value],
                 [kind |-> "created", issue |-> calls[handler.slot].value],
                 TRUE,
                 [given |-> TRUE, issueId |-> calls[handler.slot].value])
  /\ UNCHANGED <<defaultTeamKey, message, options>>

\* --------------------------------------------------- GET_LINEAR_ACTIVITY

\* activity.slice(0, 10)
ActivityShown == 10

\* handler(runtime, _message, _state, _options): it awaits nothing, takes no
\* callback, and returns the first ten items of linearService.getActivityLog().
\* It is the first request, or it follows a request that was answered.
getActivityHandler ==
  /\ handler.pc \in {"idle", "returned"}
  /\ handler.action # "GET_LINEAR_ACTIVITY"
  /\ message' = <<>>
  /\ options' = NoOptions
  /\ emitted' = <<>>
  /\ handler' = [Running("GET_LINEAR_ACTIVITY") EXCEPT !.pc = "returned"]
  /\ IF ~HasService
     THEN /\ result' = [returned |-> TRUE, success |-> FALSE,
                        text |-> FailureText("Failed to get Linear activity",
                                             NewError("Linear service not available")),
                        data |-> NoData]
          /\ UNCHANGED serviceVars
     ELSE /\ GetActivityLog([given |-> FALSE, n |-> 0],
                            [given |-> FALSE, entries |-> [k \in {} |-> 0]])
          /\ LET activity == getActivityLog(activityLog, [given |-> FALSE, n |-> 0],
                                            [given |-> FALSE,
                                             entries |-> [k \in {} |-> 0]])
             IN result' =
                  IF Len(activity) = 0
                  THEN [returned |-> TRUE, success |-> TRUE,
                        text |-> Text("No recent Linear activity found."),
                        data |-> [given |-> TRUE, activity |-> <<>>, count |-> 0]]
                  ELSE [returned |-> TRUE, success |-> TRUE,
                        text |-> [kind |-> "activity",
                                  listed |-> SliceTo(activity, ActivityShown)],
                        data |-> [given |-> TRUE,
                                  activity |-> SliceTo(activity, ActivityShown),
                                  count |-> Len(activity)]]
  /\ UNCHANGED defaultTeamKey

\* -------------------------------------------------- LIST_LINEAR_PROJECTS

\* \s, as far as the request texts hold it.
Spaces == {" "}

\* What content.match(/(?:for|in|of)\s+(?:the\s+)?(\w+)\s+team/i) captures
\* when the (\w+) starts at k: the longest run of \w, when blanks and "team"
\* follow it; <<>> when they do not.
WordBeforeTeam(content, k) ==
  LET w == RunEnd(content, k, WordChars)
      t == RunEnd(content, w, Spaces)
  IN IF w > k /\ t > w /\ HoldsAt(toLowerCase(content), t, <<"t", "e", "a", "m">>)
     THEN SubSeq(content, k, w - 1)
     ELSE <<>>

\* The capture of a match that starts at i: after the preposition and its
\* blanks, "the" and blanks are skipped when the rest matches then, and taken
\* as the word when it does not.
TeamMatchAt(content, i) ==
  LET low == toLowerCase(content)
      preps == {p \in {<<"f", "o", "r">>, <<"i", "n">>, <<"o", "f">>} : HoldsAt(low, i, p)}
  IN IF preps = {} THEN <<>>
     ELSE LET j == i + Len(CHOOSE p \in preps : TRUE)
              s == RunEnd(content, j, Spaces)
              a == RunEnd(content, s + 3, Spaces)
              skipped == IF HoldsAt(low, s, <<"t", "h", "e">>) /\ a > s + 3
                         THEN WordBeforeTeam(content, a) ELSE <<>>
          IN IF s = j THEN <<>>
             ELSE IF skipped # <<>> THEN skipped
             ELSE WordBeforeTeam(content, s)

\* teamMatch[1] of the leftmost match; <<>> is null.
teamMatch(content) ==
  LET starts == {i \in 1..Len(content) : TeamMatchAt(content, i) # <<>>}
  IN IF starts = {} THEN <<>> ELSE TeamMatchAt(content, Least(starts))

\* Request texts of a listing: none, ones that ask for all projects or not,
\* and ones that name a team in words (ENG is a team, X is none).
ListTexts ==
  { <<>>,
    <<"a", "l", "l", " ", "p", "r", "o", "j", "e", "c", "t", "s">>,
    <<"p", "r", "o", "j", "e", "c", "t", "s">>,
    <<"p", "r", "o", "j", "e", "c", "t", "s", " ", "f", "o", "r", " ", "t", "h", "e", " ", "E", "N", "G", " ", "t", "e", "a", "m">>,
    <<"p", "r", "o", "j", "e", "c", "t", "s", " ", "o", "f", " ", "X", " ", "t", "e", "a", "m">>,
    <<"A", "l", "l", " ", "p", "r", "o", "j", "e", "c", "t", "s", " ", "i", "n", " ", "t", "h", "e", " ", "t", "e", "a", "m">> }

ActiveFilter == <<"a", "c", "t", "i", "v", "e">>
CompletedFilter == <<"c", "o", "m", "p", "l", "e", "t", "e", "d">>

\* The values a completion's JSON holds for listProjectsTemplate: teamFilter,
\* showAll (TRUE is true, FALSE anything else) and stateFilter; and null.
listProjectsValues ==
  {[null |-> FALSE, teamFilter |-> t, showAll |-> a, stateFilter |-> <<>>] :
     t \in {<<>>, ENG, <<"o", "p", "s">>, <<"X">>}, a \in BOOLEAN}
    \cup {[null |-> FALSE, teamFilter |-> <<>>, showAll |-> FALSE,
           stateFilter |-> f] : f \in {ActiveFilter, CompletedFilter, <<"a", "l", "l">>}}
    \cup {JsonNull}

listProjectsCompletions ==
  {NoResponse} \cup Malformed
    \cup {<<Body(v)>> : v \in listProjectsValues}
    \cup MainShapes(Body([null |-> FALSE, teamFilter |-> <<"X">>,
                          showAll |-> FALSE, stateFilter |-> <<>>]))

\* What linearService.getProjects resolves to: no project, or a started and a
\* planned one.
RemoteProjects ==
  << [id |-> "project-1", state |-> <<"S", "t", "a", "r", "t", "e", "d">>],
     [id |-> "project-2", state |-> <<"p", "l", "a", "n", "n", "e", "d">>] >>

ProjectLists == {<<>>, RemoteProjects}

\* projects.filter(...) by stateFilter: the lower-cased state of a project
\* against the states the filter stands for; any other filter keeps all.
MatchesState(project, stateFilter) ==
  LET state == toLowerCase(project.state)
  IN IF stateFilter = ActiveFilter
     THEN state \in {<<"s", "t", "a", "r", "t", "e", "d">>, <<"i", "n", " ", "p", "r", "o", "g", "r", "e", "s", "s">>, <<>>}
     ELSE IF stateFilter = <<"p", "l", "a", "n", "n", "e", "d">>
     THEN state \in {<<"p", "l", "a", "n", "n", "e", "d">>, <<"b", "a", "c", "k", "l", "o", "g">>}
     ELSE IF stateFilter = CompletedFilter
     THEN state \in {<<"c", "o", "m", "p", "l", "e", "t", "e", "d">>, <<"d", "o", "n", "e">>, <<"c", "a", "n", "c", "e", "l", "e", "d">>}
     ELSE TRUE

FilterByState(projects, stateFilter) ==
  IF stateFilter # <<>> /\ stateFilter # <<"a", "l", "l">>
  THEN SelectSeq(projects, LAMBDA p : MatchesState(p, stateFilter))
  ELSE projects

\* teams.find(t => t.key.toLowerCase() === name.toLowerCase() ||
\*                 t.name.toLowerCase() === name.toLowerCase())
TeamsByKeyOrName(name) ==
  SelectSeq(RemoteTeams,
            LAMBDA t : \/ toLowerCase(t.key) = toLowerCase(name)
                       \/ toLowerCase(t.name) = toLowerCase(name))

\* The outer catch.
listProjectsCaught(h, e) ==
  Respond(h, FailureText("Failed to list projects", e), FALSE, NoData)

\* await linearService.getProjects(teamId)
listProjectsFetch(h) ==
  Await(h, LAMBDA c : getProjects(c, h.teamId), "getProjects", h.teamId,
        "getProjects")

\* if (!teamId && !showAll): with a default team key the teams are fetched to
\* look the key up; else the projects are fetched.
listProjectsDefaultTeam(h) ==
  IF Falsy(h.teamId) /\ ~h.showAll /\ defaultTeamKey # <<>>
  THEN Await(h, getTeams, "getTeams", Undefined, "defaultTeams")
  ELSE listProjectsFetch(h)

\* showAll of the catch block.
showAllProjects(content) ==
  /\ includes(toLowerCase(content), <<"a", "l", "l">>)
  /\ includes(toLowerCase(content), <<"p", "r", "o", "j", "e", "c", "t">>)

\* catch (parseError): the team is looked for in the request text, and showAll
\* is taken from its words.
listProjectsFallback(h) ==
  LET caught == [h EXCEPT !.fallback = TRUE, !.inTry = FALSE]
  IN IF teamMatch(message) # <<>>
     THEN Await(caught, getTeams, "getTeams", Undefined, "fallbackTeams")
     ELSE listProjectsDefaultTeam(
            [caught EXCEPT !.showAll = showAllProjects(message)])

\* The try block after the team filter: showAll and stateFilter.
listProjectsFlags(h) ==
  listProjectsDefaultTeam(
    [h EXCEPT !.inTry = FALSE, !.showAll = h.parsed.showAll,
              !.stateFilter = h.parsed.stateFilter])

\* handler(runtime, message, state, options, callback) up to its first await.
listProjectsHandler(text) ==
  /\ handler.pc = "idle"
  /\ message' = text
  /\ options' = NoOptions
  /\ LET h == Running("LIST_LINEAR_PROJECTS")
     IN IF ~HasService
        THEN listProjectsCaught(h, NewError("Linear service not available"))
        ELSE IF text = <<>>
        THEN listProjectsDefaultTeam(h)
        ELSE Suspend(h, "useModel")
  /\ UNCHANGED defaultTeamKey

\* runtime.useModel settled.
listProjectsCompletion ==
  /\ handler.action = "LIST_LINEAR_PROJECTS"
  /\ handler.pc = "useModel"
  /\ \/ \E e \in Thrown :
          listProjectsCaught([handler EXCEPT !.model = "rejected"], e)
     \/ \E response \in listProjectsCompletions :
          LET h == [handler EXCEPT !.model = "resolved", !.response = response]
              parsed == JSONparse(cleanedResponse(response))
          IN IF response = NoResponse THEN listProjectsDefaultTeam(h)
             ELSE IF ~parsed.ok THEN listProjectsFallback(h)
             ELSE IF parsed.value.null THEN listProjectsFallback(h)
             ELSE IF parsed.value.teamFilter # <<>>
             THEN Await([h EXCEPT !.inTry = TRUE, !.parsed = parsed.value],
                        getTeams, "getTeams", Undefined, "getTeams")
             ELSE listProjectsFlags([h EXCEPT !.parsed = parsed.value])
  /\ UNCHANGED <<defaultTeamKey, message, options>>

\* The handler resumes at pc with the service method it awaited settled.
listProjectsResumes(pc) ==
  /\ handler.action = "LIST_LINEAR_PROJECTS"
  /\ handler.pc = pc
  /\ Settled(handler)

\* The first of the teams found, as teamId; none leaves teamId as it is.
listProjectsTeamOf(h, found) ==
  IF found # <<>> THEN [h EXCEPT !.teamId = found[1].id] ELSE h

\* linearService.getTeams settled for parsed.teamFilter.
listProjectsTeams ==
  /\ listProjectsResumes("getTeams")
  /\ IF Rejected(handler) THEN listProjectsFallback(handler)
     ELSE listProjectsFlags(
            listProjectsTeamOf(handler,
                               TeamsByKeyOrName(handler.parsed.teamFilter)))
  /\ UNCHANGED <<defaultTeamKey, message, options>>

\* linearService.getTeams settled in the catch block; its rejection is the
\* outer catch's.
listProjectsFallbackTeams ==
  /\ listProjectsResumes("fallbackTeams")
  /\ IF Rejected(handler) THEN listProjectsCaught(handler, ServiceError(handler))
     ELSE listProjectsDefaultTeam(
            [listProjectsTeamOf(handler, TeamsByKeyOrName(teamMatch(message)))
               EXCEPT !.showAll = showAllProjects(message)])
  /\ UNCHANGED <<defaultTeamKey, message, options>>

\* linearService.getTeams settled for the default team key.
listProjectsDefaultTeams ==
  /\ listProjectsResumes("defaultTeams")
  /\ IF Rejected(handler) THEN listProjectsCaught(handler, ServiceError(handler))
     ELSE listProjectsFetch(
            listProjectsTeamOf(handler, TeamsByKey(defaultTeamKey)))
  /\ UNCHANGED <<defaultTeamKey, message, options>>

\* linearService.getProjects settled: the projects are filtered by state; none
\* left is reported as a success, else the teams and leads are fetched.
listProjectsFetched ==
  /\ listProjectsResumes("getProjects")
  /\ IF Rejected(handler) THEN listProjectsCaught(handler, ServiceError(handler))
     ELSE \E fetched \in ProjectLists :
            LET projects == FilterByState(fetched, handler.stateFilter)
                h == [handler EXCEPT !.candidates = projects]
            IN IF Len(projects) = 0
               THEN Respond(h,
                      IF Falsy(h.teamId)
                      THEN Text("No projects found in Linear.")
                      ELSE Text("No projects found for the specified team."),
                      TRUE, [given |-> TRUE, projects |-> <<>>])
               ELSE Suspend(h, "details")
  /\ UNCHANGED <<defaultTeamKey, message, options>>

\* Promise.all of each project's teams and lead settled: the list is sent and
\* returned with the filters; or a fetch threw.
listProjectsListed ==
  /\ handler.action = "LIST_LINEAR_PROJECTS"
  /\ handler.pc = "details"
  /\ \/ Respond(handler,
                [kind |-> "projects", count |-> Len(handler.candidates),
                 stateFilter |-> handler.stateFilter],
                TRUE,
                [given |-> TRUE, projects |-> handler.candidates,
                 count |-> Len(handler.candidates),
                 filters |-> [team |-> handler.teamId,
                              state |-> handler.stateFilter]])
     \/ \E e \in Thrown : listProjectsCaught(handler, e)
  /\ UNCHANGED <<defaultTeamKey, message, options>>

\* ------------------------------------ GET_LINEAR_ACTIVITY with its filters

\* The ledgers the request finds: empty, two items, more items than are shown.
MaxFill == 12

ActivityFills == {0, 2, MaxFill}

\* item.timestamp = new Date().toISOString() at the push: the ledger's clock
\* is the number of the push.
Timestamp(item) == item.id

\* What JSON.parse yields for the completion: timeRange.from, actionTypes,
\* resourceTypes, resourceId ('' when absent), successFilter, limit (0 when
\* absent).  A timeRange.period is turned into a from date by the clock and
\* stands in from.
NoTimeRange == [given |-> FALSE]

getActivityValues ==
  {[null |-> FALSE, timeRange |-> NoTimeRange, actionTypes |-> a,
    resourceTypes |-> <<>>, resourceId |-> "", successFilter |-> s, limit |-> l] :
     a \in {<<>>, <<"get_issue", "list_teams">>},
     s \in {"", "all", "success", "failed"},
     l \in 0..2}
    \cup {[null |-> FALSE, timeRange |-> NoTimeRange, actionTypes |-> <<>>,
           resourceTypes |-> r, resourceId |-> i, successFilter |-> "", limit |-> 0] :
            r \in {<<>>, <<"issue">>}, i \in {"", "remote-1"}}
    \cup {[null |-> FALSE, timeRange |-> [given |-> TRUE, from |-> t],
           actionTypes |-> <<>>, resourceTypes |-> <<>>, resourceId |-> "",
           successFilter |-> "", limit |-> l] : t \in {1, 2}, l \in {0, 1}}
    \cup {JsonNull}

getActivityCompletions ==
  {NoResponse} \cup Malformed
    \cup {<<Body(v)>> : v \in getActivityValues}
    \cup MainShapes(Body([null |-> FALSE, timeRange |-> NoTimeRange,
                          actionTypes |-> <<>>, resourceTypes |-> <<>>,
                          resourceId |-> "", successFilter |-> "failed",
                          limit |-> 1]))

NoEntries == [key \in {} |-> 0]

\* let filters = {}; then the assignments of filters.fromDate, filters.action,
\* filters.resource_type, filters.resource_id and filters.success.
getActivityFilters(parsed) ==
  (IF parsed.timeRange.given THEN "fromDate" :> parsed.timeRange.from ELSE NoEntries)
    @@ (IF Len(parsed.actionTypes) > 0 THEN "action" :> parsed.actionTypes[1] ELSE NoEntries)
    @@ (IF Len(parsed.resourceTypes) > 0
        THEN "resource_type" :> parsed.resourceTypes[1] ELSE NoEntries)
    @@ (IF parsed.resourceId # "" THEN "resource_id" :> parsed.resourceId ELSE NoEntries)
    @@ (IF parsed.successFilter \notin {"", "all"}
        THEN "success" :> (parsed.successFilter = "success") ELSE NoEntries)

\* limit = parsed.limit || 10
getActivityLimit(parsed) == IF parsed.limit # 0 THEN parsed.limit ELSE ActivityShown

\* let activity = linearService.getActivityLog(limit * 2, filters);
\* if (filters.fromDate) activity = activity.filter(item => time >= fromTime);
\* activity = activity.slice(0, limit)
getActivityShown(filters, limit) ==
  LET queried == getActivityLog(activityLog, [given |-> TRUE, n |-> limit * 2],
                                [given |-> TRUE, entries |-> filters])
      timed == IF "fromDate" \in DOMAIN filters
               THEN SelectSeq(queried,
                              LAMBDA item : Timestamp(item) >= filters["fromDate"])
               ELSE queried
  IN SliceTo(timed, limit)

\* The handler's catch block: the callback, and the failure result.
getActivityCaught(h, e) ==
  Respond(h, FailureText("Failed to get activity", e), FALSE, NoData)

\* From the ledger's query to the handler's return.
getActivityAnswer(h, filters, limit) ==
  LET activity == getActivityShown(filters, limit)
      answered == [h EXCEPT !.pc = "returned", !.filters = filters, !.limit = limit]
  IN /\ handler' = answered
     /\ UNCHANGED serviceVars
     /\ IF Len(activity) = 0
        THEN LET text == IF "fromDate" \in DOMAIN filters
                         THEN Text("No Linear activity found for the specified filters.")
                         ELSE Text("No recent Linear activity found.")
             IN /\ emitted' = Append(emitted, text)
                /\ result' = [returned |-> TRUE, success |-> TRUE, text |-> text,
                              data |-> [given |-> TRUE, activity |-> <<>>]]
        ELSE /\ emitted' = Append(emitted, [kind |-> "activity", listed |-> activity])
             /\ result' = [returned |-> TRUE, success |-> TRUE,
                           text |-> [kind |-> "found", count |-> Len(activity)],
                           data |-> [given |-> TRUE, activity |-> activity,
                                     filters |-> filters, count |-> Len(activity)]]

ActivityTexts == {<<>>, <<"E">>}

\* handler(runtime, message, _state, _options, callback)
getActivityFilteredHandler(text) ==
  /\ handler.pc = "idle"
  /\ message' = text
  /\ options' = NoOptions
  /\ LET h == Running("GET_LINEAR_ACTIVITY")
     IN IF ~HasService
        THEN getActivityCaught(h, NewError("Linear service not available"))
        ELSE IF text = <<>>
        THEN getActivityAnswer(h, NoEntries, ActivityShown)
        ELSE Suspend(h, "useModel")
  /\ UNCHANGED defaultTeamKey

\* runtime.useModel settled.
getActivityCompletion ==
  /\ handler.action = "GET_LINEAR_ACTIVITY"
  /\ handler.pc = "useModel"
  /\ \/ \E e \in Thrown :
          getActivityCaught([handler EXCEPT !.model = "rejected"], e)
     \/ \E response \in getActivityCompletions :
          LET h == [handler EXCEPT !.model = "resolved", !.response = response]
              parsed == JSONparse(cleanedResponse(response))
          IN IF response = NoResponse \/ ~parsed.ok
             THEN getActivityAnswer(h, NoEntries, ActivityShown)
             ELSE IF parsed.value.null
             THEN getActivityAnswer(h, NoEntries, ActivityShown)
             ELSE getActivityAnswer(h, getActivityFilters(parsed.value),
                                    getActivityLimit(parsed.value))
  /\ UNCHANGED <<defaultTeamKey, message, options>>

\* A service that has run for a while: its ledger holds the items of its
\* earlier operations.
InitActivity ==
  /\ apiKey = "test-api-key"
  /\ phase \in {"started", "failed"}
  /\ client = "client"
  /\ startError = IF phase = "started" THEN NoError
                  ELSE LinearAuthenticationError("Failed to authenticate with Linear API")
  /\ \E n \in ActivityFills :
       /\ activityLog = [i \in 1..n |-> PreFillItem(i)]
       /\ inserted = n
  /\ logged = <<>>
  /\ calls = [c \in Slots |-> IdleCall]
  /\ issued = 0
  /\ clearedAt = 0
  /\ lastSync = NoSync
  /\ NoHandler

NextActivity ==
  \/ getActivityHandler
  \/ \E text \in ActivityTexts : getActivityFilteredHandler(text)
  \/ getActivityCompletion

SpecActivity == InitActivity /\ [][NextActivity]_vars

\* --------------------------------------------------- CREATE_LINEAR_COMMENT

CommentOn == <<"c", "o", "m", "m", "e", "n", "t", " ", "o", "n">>

AddCommentTo == <<"a", "d", "d", " ", "c", "o", "m", "m", "e", "n", "t", " ", "t", "o">>

Ok == <<"o", "k">>

\* Request texts of a comment: none, ones that name no issue, and ones that
\* name E-1 with a body, with a blank body and with none.
CommentTexts ==
  { <<>>,
    Ok,
    CommentOn,
    CommentOn \o <<" ">> \o Ok,
    CommentOn \o <<" ", "E", "-", "1">>,
    <<"C", "o", "m", "m", "e", "n", "t", " ", "o", "n", " ", "E", "-", "1", ":">>,
    CommentOn \o <<" ", "E", "-", "1", ":", " ", " ">>,
    CommentOn \o <<" ", "E", "-", "1", ":", " ">> \o Ok,
    CommentOn \o <<" ", "E", "-", "1", " ">> \o Ok \o <<" ">>,
    AddCommentTo \o <<" ", "E", "-", "1">>,
    AddCommentTo \o <<" ", "E", "-", "1", ":", " ">> \o Ok }

\* String.prototype.trim() on a text whose only white space is blanks.
RECURSIVE TrimEnd(_)
TrimEnd(s) ==
  IF s # <<>> /\ s[Len(s)] \in Spaces THEN TrimEnd(SubSeq(s, 1, Len(s) - 1)) ELSE s

TrimBlanks(s) ==
  LET from == RunEnd(s, 1, Spaces) IN TrimEnd(SubSeq(s, from, Len(s)))

\* \s+(\w+-\d+):?\s*(.*) matched from j on: the two captures, or no match.
\* \s+ is followed by a \w and (\w+-\d+) by patterns that match anything, so
\* every run is the longest one.
NoMatch == [matched |-> FALSE]

CommentTailAt(content, j) ==
  LET s == RunEnd(content, j, Spaces)
      id == MatchAt(content, s)
      c == s + Len(id)
      b == RunEnd(content, IF c <= Len(content) /\ content[c] = ":" THEN c + 1 ELSE c,
                  Spaces)
  IN IF s > j /\ id # <<>>
     THEN [matched |-> TRUE, issueIdentifier |-> id,
           commentBody |-> SubSeq(content, b, Len(content))]
     ELSE NoMatch

\* The ends of what (?:comment on|add.*comment.*to) matches from i on, case
\* ignored: the first alternative's, and the second alternative's.
AfterCommentOn(low, i) ==
  IF HoldsAt(low, i, CommentOn) THEN {i + Len(CommentOn)} ELSE {}

AfterAddCommentTo(low, i) ==
  IF ~HoldsAt(low, i, <<"a", "d", "d">>) THEN {}
  ELSE {t + 2 : t \in {t \in 1..Len(low) :
                         /\ HoldsAt(low, t, <<"t", "o">>)
                         /\ \E m \in (i + 3)..(t - 7) :
                              HoldsAt(low, m, <<"c", "o", "m", "m", "e", "n", "t">>)}}

\* The match that starts at i: the first alternative when the rest matches
\* after it; if not, the second one with its greedy .* as long as the rest
\* allows.
CommentMatchAt(content, i) ==
  LET low == toLowerCase(content)
      first == {j \in AfterCommentOn(low, i) : CommentTailAt(content, j).matched}
      second == {j \in AfterAddCommentTo(low, i) : CommentTailAt(content, j).matched}
  IN IF first # {} THEN CommentTailAt(content, Least(first))
     ELSE IF second # {}
     THEN CommentTailAt(content, CHOOSE j \in second : \A k \in second : k <= j)
     ELSE NoMatch

\* content.match(/(?:comment on|add.*comment.*to)\s+(\w+-\d+):?\s*(.*)/i)
commentMatch(content) ==
  LET starts == {i \in 1..Len(content) : CommentMatchAt(content, i).matched}
  IN IF starts = {} THEN NoMatch ELSE CommentMatchAt(content, Least(starts))

createCommentCaught(h, e) ==
  Respond(h, FailureText("Failed to create comment", e), FALSE, NoData)

\* createCommentAction.handler(runtime, message, _state, _options, callback)
createCommentHandler(text) ==
  /\ handler.pc = "idle"
  /\ message' = text
  /\ options' = NoOptions
  /\ LET h == Running("CREATE_LINEAR_COMMENT")
         issueMatched == commentMatch(text)
     IN IF ~HasService
        THEN createCommentCaught(h, NewError("Linear service not available"))
        ELSE IF text = <<>>
        THEN Respond(h, Text("Please provide a message with the issue ID and comment content."),
                     FALSE, NoData)
        ELSE IF ~issueMatched.matched
        THEN Respond(h, Text("Please specify the issue ID and comment content."),
                     FALSE, NoData)
        ELSE Await([h EXCEPT !.issue = issueMatched.issueIdentifier,
                             !.rest = issueMatched.commentBody],
                   LAMBDA c : getIssue(c, issueMatched.issueIdentifier), "getIssue",
                   issueMatched.issueIdentifier, "getIssue")
  /\ UNCHANGED defaultTeamKey

\* linearService.getIssue settled:
\* await linearService.createComment({issueId: issue.id, body: commentBody.trim()})
createCommentFetched ==
  /\ handler.action = "CREATE_LINEAR_COMMENT"
  /\ handler.pc = "getIssue"
  /\ Settled(handler)
  /\ IF Rejected(handler)
     THEN createCommentCaught(handler, ServiceError(handler))
     ELSE LET input == [issueId |-> StableId(handler.issue),
                        body |-> TrimBlanks(handler.rest)]
          IN Await(handler, LAMBDA c : createComment(c, input), "createComment",
                   input, "createComment")
  /\ UNCHANGED <<defaultTeamKey, message, options>>

\* linearService.createComment settled.
createCommentCreated ==
  /\ handler.action = "CREATE_LINEAR_COMMENT"
  /\ handler.pc = "createComment"
  /\ Settled(handler)
  /\ IF Rejected(handler)
     THEN createCommentCaught(handler, ServiceError(handler))
     ELSE Respond(handler,
                  [kind |-> "commented", issue |-> handler.issue,
                   body |-> TrimBlanks(handler.rest)], TRUE,
                  [given |-> TRUE, commentId |-> calls[handler.slot].value,
                   issueId |-> StableId(handler.issue)])
  /\ UNCHANGED <<defaultTeamKey, message, options>>

\* options?.issueId and options?.body, each given or not.
CommentOptions ==
  {NoOptions}
    \cup {[given |-> TRUE, issueId |-> i, body |-> b] :
            i \in {<<>>, <<"i", "d", ":", "E", "-", "1">>}, b \in {<<>>, Ok}}

\* createLinearCommentAction.handler(runtime, message, state, options): it
\* takes no callback.
createLinearCommentHandler(text, opts) ==
  /\ handler.pc = "idle"
  /\ message' = text
  /\ options' = opts
  /\ LET h == Running("CREATE_LINEAR_COMMENT")
         issueId == IF opts.given THEN opts.issueId ELSE <<>>
         body == IF opts.given /\ opts.body # <<>> THEN opts.body ELSE text
     IN IF ~HasService
        THEN Return(h, Text("Linear service not available"), FALSE, NoData)
        ELSE IF issueId = <<>> \/ body = <<>>
        THEN Return(h, Text("Issue ID and comment body are required"), FALSE, NoData)
        ELSE LET commentInput == [issueId |-> issueId, body |-> body]
             IN Await(h, LAMBDA c : createComment(c, commentInput), "createComment",
                      commentInput, "commentInput")
  /\ UNCHANGED defaultTeamKey

\* linearService.createComment settled.
createLinearCommentCreated ==
  /\ handler.action = "CREATE_LINEAR_COMMENT"
  /\ handler.pc = "commentInput"
  /\ Settled(handler)
  /\ IF Rejected(handler)
     THEN Return(handler, [kind |-> "error", message |-> ServiceError(handler).message],
                 FALSE, NoData)
     ELSE Return(handler, [kind |-> "commented"], TRUE,
                 [given |-> TRUE, commentId |-> calls[handler.slot].value,
                  issueId |-> calls[handler.slot].arg.issueId])
  /\ UNCHANGED <<defaultTeamKey, message, options>>

\* --------------------------------------------- a handler's invocation

\* The runtime holds the started service, or none (its start failed), and the
\* default team key is set or not; no handler was invoked yet.
InitActions ==
  /\ apiKey = "test-api-key"
  /\ phase \in {"started", "failed"}
  /\ client = "client"
  /\ startError = IF phase = "started" THEN NoError
                  ELSE LinearAuthenticationError("Failed to authenticate with Linear API")
  /\ activityLog = <<>>
  /\ inserted = 0
  /\ logged = <<>>
  /\ calls = [c \in Slots |-> IdleCall]
  /\ issued = 0
  /\ clearedAt = 0
  /\ lastSync = NoSync
  /\ defaultTeamKey \in {<<>>, ENG}
  /\ message = <<>>
  /\ options = NoOptions
  /\ handler = IdleHandler
  /\ emitted = <<>>
  /\ result = NoResult

\* One handler is invoked and runs to its end; the service methods it awaits
\* run as they do for any caller.
NextActions ==
  \/ \E text \in Texts : getIssueHandler(text)
  \/ getIssueCompletion
  \/ getIssueFetched
  \/ formatIssueResponse
  \/ getIssueSearched
  \/ getIssueListed
  \/ \E text \in CommentTexts : createCommentHandler(text)
  \/ createCommentFetched
  \/ createCommentCreated
  \/ \E text \in CommentTexts, opts \in CommentOptions :
       createLinearCommentHandler(text, opts)
  \/ createLinearCommentCreated
  \/ \E text \in Texts, opts \in IssueOptions : deleteIssueHandler(text, opts)
  \/ deleteIssueCompletion
  \/ deleteIssueFetched
  \/ deleteIssueArchived
  \/ \E text \in UpdateTexts : updateIssueHandler(text)
  \/ updateIssueCompletion
  \/ updateIssueTeams
  \/ updateIssueUsers
  \/ updateIssueFetched
  \/ updateIssueTeamOfIssue
  \/ updateIssueStates
  \/ updateIssueLabels
  \/ updateIssueUpdated
  \/ \E text \in SearchTexts, opts \in SearchOptions :
       searchIssuesHandler(text, opts)
  \/ searchIssuesCompletion
  \/ searchIssuesCurrentUser
  \/ searchIssuesFound
  \/ searchIssuesListed
  \/ searchIssuesData
  \/ \E text \in CreateTexts, opts \in CreateOptions :
       createIssueHandler(text, opts)
  \/ createIssueCompletion
  \/ createIssueTeams
  \/ createIssueUsers
  \/ createIssueFirstTeam
  \/ createIssueFallbackTeams
  \/ createIssueCreated
  \/ getActivityHandler
  \/ \E text \in ListTexts : listProjectsHandler(text)
  \/ listProjectsCompletion
  \/ listProjectsTeams
  \/ listProjectsFallbackTeams
  \/ listProjectsDefaultTeams
  \/ listProjectsFetched
  \/ listProjectsListed
  \/ \E c \in Slots : getProjectsSettled(c) /\ UNCHANGED handlerVars
  \/ \E c \in Slots : createIssueSettled(c) /\ UNCHANGED handlerVars
  \/ \E c \in Slots : getCurrentUserSettled(c) /\ UNCHANGED handlerVars
  \/ \E c \in Slots : getTeamsSettled(c) /\ UNCHANGED handlerVars
  \/ \E c \in Slots : getUsersSettled(c) /\ UNCHANGED handlerVars
  \/ \E c \in Slots : getWorkflowStatesSettled(c) /\ UNCHANGED handlerVars
  \/ \E c \in Slots : getLabelsSettled(c) /\ UNCHANGED handlerVars
  \/ \E c \in Slots : updateIssueSettled(c) /\ UNCHANGED handlerVars
  \/ \E c \in Slots : getIssueSettled(c) /\ UNCHANGED handlerVars
  \/ \E c \in Slots : createCommentSettled(c) /\ UNCHANGED handlerVars
  \/ \E c \in Slots : searchIssuesSettled(c) /\ UNCHANGED handlerVars
  \/ \E c \in Slots : deleteIssueSettled(c) /\ UNCHANGED handlerVars

SpecActions == InitActions /\ [][NextActions]_vars

\* ------------------------------------------------------------------ claims

\* Invocation n has returned or thrown.
Completed(n) == \A c \in Slots : ~(calls[c].inv = n /\ calls[c].pc = "await")

\* C1: every invocation of a remote operation has pushed exactly one item to
\* the ledger by the time it has returned or thrown, whichever way it ended, and
\* none while it is still awaiting its remote request.
C1_OneItemPerInvocation ==
  /\ Len(logged) = issued
  /\ \A n \in 1..issued : Len(logged[n]) = IF Completed(n) THEN 1 ELSE 0
  /\ inserted = Cardinality({n \in 1..issued : Completed(n)})

\* An invocation has thrown, its one failure item pushed.
C1_Witness ==
  \E c \in Slots :
    /\ calls[c].pc = "thrown"
    /\ Len(logged[calls[c].inv]) = 1
    /\ ~logged[calls[c].inv][1].success

\* The remote requests an operation awaits one after the other, at most.
RemoteRequests(op) ==
  IF op \in {"createIssue", "updateIssue", "createComment", "getProjects"}
  THEN 2 ELSE 1

\* C2: an invocation whose remote request failed has pushed one item with
\* success = false and the caught error's message, has thrown a LinearAPIError
\* whose message carries that message, has returned no value, and has issued
\* none of its remote requests a second time.
C2_FailureLoggedThenThrown ==
  \A c \in Slots :
    calls[c].pc = "thrown" =>
      LET items == logged[calls[c].inv]
      IN /\ Len(items) = 1
         /\ items[1].success = FALSE
         /\ calls[c].cause.isError => items[1].error = calls[c].cause.message
         /\ calls[c].error.name = "LinearAPIError"
         /\ calls[c].error.message[2] = items[1].error
         /\ calls[c].value = Undefined
         /\ calls[c].requests <= RemoteRequests(calls[c].op)

\* A remote request rejected with Error('Network error'), and the invocation
\* has thrown.
C2_Witness ==
  \E c \in Slots :
    /\ calls[c].pc = "thrown"
    /\ calls[c].cause = [isError |-> TRUE, message |-> "Network error"]
    /\ logged[calls[c].inv][1].error = "Network error"
    /\ calls[c].error.message[2] = "Network error"

\* C8 as stated: an item with success = true has no error, and an item with
\* success = false has a non-empty error string.
C8_ErrorNonEmptyOnFailure ==
  \A i \in DOMAIN activityLog :
    IF activityLog[i].success
    THEN activityLog[i].error = Undefined
    ELSE activityLog[i].error \notin {Undefined, ""}

\* C8, amended: an item with success = true has no error, and an item with
\* success = false has an error string, which may be empty; the item of an
\* invocation that threw has success = false, that of one that returned has
\* success = true.
C8_ErrorOnlyOnFailure ==
  /\ \A i \in DOMAIN activityLog :
       activityLog[i].success <=> activityLog[i].error = Undefined
  /\ \A c \in Slots :
       calls[c].pc \in {"returned", "thrown"} =>
         \A k \in DOMAIN logged[calls[c].inv] :
           /\ logged[calls[c].inv][k].success <=> calls[c].pc = "returned"
           /\ logged[calls[c].inv][k].success
                <=> logged[calls[c].inv][k].error = Undefined

\* The ledger holds the item of a request that rejected with an Error whose
\* message is empty.
C8_Witness ==
  \E c \in Slots :
    /\ calls[c].pc = "thrown"
    /\ calls[c].cause = [isError |-> TRUE, message |-> ""]
    /\ \E i \in DOMAIN activityLog :
         ~activityLog[i].success /\ activityLog[i].error = ""

\* C9: a createIssue that returned has pushed exactly one item, with action
\* 'create_issue', resource_type 'issue', success = true and the created issue's
\* id; start-up pushes nothing, so on a ledger not yet written to, that item is
\* then the whole ledger.
C9_CreateIssueTracked ==
  /\ issued = 0 => inserted = 0 /\ activityLog = <<>>
  /\ \A c \in Slots :
       calls[c].pc = "returned" /\ calls[c].op = "createIssue" =>
         LET items == logged[calls[c].inv]
         IN /\ Len(items) = 1
            /\ items[1].action = "create_issue"
            /\ items[1].resource_type = "issue"
            /\ items[1].success = TRUE
            /\ calls[c].value \in RemoteIds
            /\ items[1].resource_id = calls[c].value
            /\ inserted = 1 /\ clearedAt = 0 => activityLog = <<items[1]>>

\* A started service, one createIssue returned, and its item alone in the
\* ledger.
C9_Witness ==
  /\ phase = "started"
  /\ inserted = 1
  /\ \E c \in Slots :
       /\ calls[c].pc = "returned" /\ calls[c].op = "createIssue"
       /\ Len(activityLog) = 1
       /\ activityLog[1].action = "create_issue"
       /\ activityLog[1].resource_id = calls[c].value

\* C10: without an API key (undefined or empty), start has rejected with
\* LinearAuthenticationError('Linear API key is required'), no client exists,
\* and no caller ever held the service: nothing was invoked, logged or cleared.
C10_NoKeyNoService ==
  Falsy(apiKey) /\ phase # "unstarted" =>
    /\ phase = "failed"
    /\ startError = LinearAuthenticationError("Linear API key is required")
    /\ client = "none"
    /\ ~HasService
    /\ issued = 0 /\ inserted = 0 /\ activityLog = <<>> /\ lastSync = NoSync

\* start has run with an empty API key.
C10_Witness ==
  /\ apiKey = ""
  /\ phase = "failed"
  /\ startError.name = "LinearAuthenticationError"

\* Items pushed since the ledger was last cleared (or since the service started).
SinceClear == inserted - clearedAt

\* C3: the ledger never holds more than 1000 items.
C3_LedgerBounded == Len(activityLog) <= MaxActivities

\* More than 1000 items were pushed without a clear, and the ledger is full.
C3_Witness ==
  /\ SinceClear > MaxActivities
  /\ Len(activityLog) = MaxActivities

\* C4: once more than 1000 items were pushed with no clear in between, the
\* ledger holds exactly 1000 items: the last 1000 pushed, oldest first (the item
\* with id k is the k-th ever pushed), each as its invocation pushed it.
C4_KeepsNewestThousand ==
  SinceClear > MaxActivities =>
    /\ Len(activityLog) = MaxActivities
    /\ \A i \in 1..MaxActivities :
         activityLog[i].id = inserted - MaxActivities + i
    /\ \A n \in 1..issued : \A k \in DOMAIN logged[n] :
         logged[n][k].id > inserted - MaxActivities =>
           activityLog[logged[n][k].id - (inserted - MaxActivities)] = logged[n][k]

\* An invocation's item was the 1001st or later since the last clear, and the
\* oldest item left is the one pushed 999 insertions before the newest.
C4_Witness ==
  /\ SinceClear > MaxActivities
  /\ \E n \in 1..issued : Len(logged[n]) = 1 /\ logged[n][1].id = inserted
  /\ activityLog[1].id = inserted - (MaxActivities - 1)
  /\ activityLog[MaxActivities].id = inserted

\* s is a suffix of t.
IsSuffix(s, t) ==
  /\ Len(s) <= Len(t)
  /\ \A i \in 1..Len(s) : s[i] = t[Len(t) - Len(s) + i]

\* C5 as stated: getActivityLog(k) with no filter, k a non-negative integer,
\* returns at most k items, and they are a suffix of the ledger.
C5_AtMostLimitItems ==
  (lastSync.op = "query" /\ lastSync.limit.given /\ ~lastSync.filter.given) =>
    /\ Len(lastSync.result) <= lastSync.limit.n
    /\ IsSuffix(lastSync.result, activityLog)

\* The smaller of two numbers.
Min(a, b) == IF a < b THEN a ELSE b

\* The last n elements of s, for n <= Len(s).
LastN(s, n) == SubSeq(s, Len(s) - n + 1, Len(s))

\* C6 as stated: getActivityLog(limit, filter) returns the last min(limit, m) of
\* the m items whose fields equal every key/value pair of filter, in insertion
\* order; an omitted limit counts as 100.
C6_LastMinLimitMatching ==
  lastSync.op = "query" =>
    LET wanted == IF lastSync.limit.given THEN lastSync.limit.n ELSE DefaultLimit
        matching ==
          IF lastSync.filter.given
          THEN SelectSeq(activityLog,
                         LAMBDA item : \A key \in DOMAIN lastSync.filter.entries :
                                          item[key] = lastSync.filter.entries[key])
          ELSE activityLog
    IN lastSync.result = LastN(matching, Min(wanted, Len(matching)))

\* C7: clearActivityLog can always be called, and a getActivityLog right after
\* it returns no item, whatever its limit and filter and whatever the ledger
\* held.
C7_EmptyAfterClear ==
  /\ HasService => ENABLED clearActivityLog
  /\ lastSync.op = "clear" => activityLog = <<>>
  /\ (lastSync.op = "query" /\ lastSync.afterClear) => lastSync.result = <<>>

\* A ledger that held items was cleared, and the getActivityLog after it
\* returned nothing.
C7_Witness ==
  /\ lastSync.op = "query"
  /\ lastSync.afterClear
  /\ lastSync.held > 0
  /\ lastSync.result = <<>>

\* C11: with an API key present and the connection check rejected, start
\* rejects with a LinearAuthenticationError and no service is ever held (no
\* operation was invoked, nothing was logged); a service is held only when the
\* connection check succeeded, that is, with a client and without a start error.
C11_FailedCheckNoService ==
  /\ (~Falsy(apiKey) /\ phase = "failed") =>
       /\ startError =
            LinearAuthenticationError("Failed to authenticate with Linear API")
       /\ ~HasService
       /\ ~ENABLED validateConnection
       /\ issued = 0
       /\ activityLog = <<>>
  /\ HasService =>
       /\ ~Falsy(apiKey)
       /\ client = "client"
       /\ startError = NoError

\* The constructor built the client from a present API key, and the connection
\* check was rejected.
C11_Witness ==
  /\ ~Falsy(apiKey)
  /\ client = "client"
  /\ phase = "failed"
  /\ startError.name = "LinearAuthenticationError"
  /\ startError.message = <<"Failed to authenticate with Linear API">>

\* ------------------------------------------- claims on the action handlers

\* s has the shape of an issue identifier: word characters, a hyphen, digits.
IsIdentifier(s) ==
  \E k \in 2..(Len(s) - 1) :
    /\ s[k] = "-"
    /\ \A i \in 1..(k - 1) : s[i] \in WordChars
    /\ \A i \in (k + 1)..Len(s) : s[i] \in Digits

\* The places <<i, j>> where text holds an identifier.
IdentifiersIn(text) ==
  {p \in (1..Len(text)) \X (1..Len(text)) :
     p[1] <= p[2] /\ IsIdentifier(SubSeq(text, p[1], p[2]))}

\* The identifier token of text that comes first, taken as long as it goes.
FirstIdentifier(text) ==
  LET p == CHOOSE p \in IdentifiersIn(text) :
             \A q \in IdentifiersIn(text) :
               p[1] < q[1] \/ (p[1] = q[1] /\ p[2] >= q[2])
  IN SubSeq(text, p[1], p[2])

\* The handler of action is past its completion, which resolved.
Interpreted(action) ==
  /\ handler.action = action
  /\ handler.model = "resolved"

\* C12: GET_LINEAR_ISSUE with a request text that holds an identifier token and
\* a completion that resolved to nothing: the regex fallback is evaluated, the
\* only service call is getIssue on that token, and the issue the handler
\* returns, if it returns one, is that one.
C12_NoResponseFetchesToken ==
  (/\ Interpreted("GET_LINEAR_ISSUE")
   /\ handler.response = NoResponse
   /\ IdentifiersIn(message) # {}) =>
    /\ handler.fallback
    /\ handler.called = <<[op |-> "getIssue", arg |-> FirstIdentifier(message)]>>
    /\ (result.returned /\ result.success) =>
         result.data.issue = FirstIdentifier(message)

\* The completion resolved to nothing, the text held E-1, and E-1 was fetched
\* and returned.
C12_Witness ==
  /\ Interpreted("GET_LINEAR_ISSUE")
  /\ handler.response = NoResponse
  /\ IsIdentifier(message)
  /\ handler.fallback
  /\ result.returned
  /\ result.success
  /\ result.data.issue = message
  /\ emitted = <<[kind |-> "issue", issue |-> message]>>

\* The completions that are a ```json fence around a JSON object with a
\* directId.
FencedDirectId ==
  {<<Fence, Json, Newline, Body(v), Newline, Fence>> :
     v \in {w \in getIssueValues : ~w.null /\ w.directId # <<>>}}

\* C14 as stated: GET_LINEAR_ISSUE with a completion that is valid JSON with a
\* directId in a code fence never evaluates the regex fallback, and every
\* service call it makes is getIssue on that directId.
C14_FencedDirectIdOnly ==
  (Interpreted("GET_LINEAR_ISSUE") /\ handler.response \in FencedDirectId) =>
    /\ ~handler.fallback
    /\ \A i \in DOMAIN handler.called :
         handler.called[i] = [op |-> "getIssue", arg |-> OtherIssue]

\* The search by criteria resolved and nothing was thrown since.
Searched ==
  /\ Interpreted("GET_LINEAR_ISSUE")
  /\ handler.searched
  /\ ~handler.fallback

\* What the claim says of the issues a search by criteria found: none is
\* reported as a failure result that is no thrown error, one is taken, several
\* are listed (five at most) with none taken; asRecency says whether criteria
\* that ask for recency are ruled by it too.  The only service call is the
\* search.
CandidatesDecide(asRecency) ==
  LET n == Len(handler.candidates)
      listing == asRecency \/ ~handler.searchBy.recency
  IN /\ handler.called = <<[op |-> "searchIssues", arg |-> handler.filters]>>
     /\ n = 0 =>
          /\ result.returned /\ ~result.success
          /\ emitted = <<Text("No issues found matching your criteria.")>>
     /\ (n = 1 /\ listing) =>
          /\ handler.issue = handler.candidates[1]
          /\ (result.returned => result.success /\ result.data.issue = handler.issue)
     /\ (n >= 2 /\ listing) =>
          /\ handler.issue = <<>>
          /\ result.returned =>
               /\ result.success
               /\ result.data.multipleResults
               /\ result.data.issues = SliceTo(handler.candidates, MaxListed)
               /\ Len(result.data.issues) <= MaxListed
               /\ emitted[1].kind = "clarify"
     /\ (n >= 1 /\ ~listing) =>
          /\ handler.issue = Newest(handler.candidates)
          /\ (result.returned => result.success /\ result.data.issue = handler.issue)

Unusable(response) ==
  response = NoResponse \/ ~JSONparse(cleanedResponse(response)).ok

\* C13 as stated: UPDATE_LINEAR_ISSUE and DELETE_LINEAR_ISSUE with a request
\* text that holds an identifier token and a completion that is empty or
\* cannot be parsed: the regex fallback is evaluated and the handler goes on
\* with that token as the issue.
C13_UnusableCompletionRecovers ==
  \A action \in {"UPDATE_LINEAR_ISSUE", "DELETE_LINEAR_ISSUE"} :
    (/\ Interpreted(action)
     /\ Unusable(handler.response)
     /\ IdentifiersIn(message) # {}) =>
      /\ handler.fallback
      /\ handler.issueId = FirstIdentifier(message)

\* The ledger items with resource_type 'issue' that are filed under the id the
\* remote keeps for the issue with this identifier.
ItemsOfIssue(identifier) ==
  {i \in DOMAIN activityLog :
     /\ activityLog[i].resource_type = "issue"
     /\ activityLog[i].resource_id = StableId(identifier)}

\* The delete handler's deleteIssue call has returned.
Archived ==
  /\ handler.action = "DELETE_LINEAR_ISSUE"
  /\ handler.slot \in Slots
  /\ calls[handler.slot].op = "deleteIssue"
  /\ calls[handler.slot].pc = "returned"

NamedTeam ==
  IF options.given /\ options.filters.given THEN options.filters.team
  ELSE LET parsed == JSONparse(cleanedResponse(handler.response))
       IN IF handler.model = "resolved" /\ parsed.ok /\ ~parsed.value.null
               /\ parsed.value.teams # <<>>
          THEN parsed.value.teams[1]
          ELSE <<>>

\* The filters the handler passed to linearService.searchIssues.
SearchFilters ==
  {handler.called[i].arg : i \in {j \in DOMAIN handler.called :
                                    handler.called[j].op = "searchIssues"}}

\* C16: in SEARCH_LINEAR_ISSUES with a default team key configured, the
\* filters passed to the service carry the default key as team exactly when the
\* request names no team (neither in the caller's filters nor in what the
\* completion extracted) and its text does not ask for all issues; a named
\* team is carried as named, and a request for all issues without a named team
\* carries no team.
C16_DefaultTeamInSearch ==
  (handler.action = "SEARCH_LINEAR_ISSUES" /\ defaultTeamKey # <<>>) =>
    \A filters \in SearchFilters :
      /\ (NamedTeam = <<>> /\ ~searchingAllIssues(message))
           => filters.team = defaultTeamKey
      /\ NamedTeam # <<>> => filters.team = NamedTeam
      /\ (NamedTeam = <<>> /\ searchingAllIssues(message))
           => filters.team = <<>>
      /\ (filters.team = defaultTeamKey /\ NamedTeam # defaultTeamKey)
           <=> (NamedTeam = <<>> /\ ~searchingAllIssues(message))

\* What the handler passed to linearService.createIssue.
CreateInputs ==
  {handler.called[i].arg : i \in {j \in DOMAIN handler.called :
                                    handler.called[j].op = "createIssue"}}

\* A create request that names no team: no issueData was supplied, and the
\* completion gave no teamKey (or gave nothing that parses).
NoTeamNamed ==
  /\ ~options.given
  /\ handler.model = "resolved"
  /\ LET parsed == JSONparse(cleanedResponse(handler.response))
     IN (parsed.ok /\ ~parsed.value.null) => parsed.value.teamKey = <<>>

\* The items the handler's createIssue call pushed.
CreateItems ==
  LET inv == calls[handler.slot].inv
  IN SelectSeq(logged[inv], LAMBDA item : item.action = "create_issue")

\* C17: in CREATE_LINEAR_ISSUE with the default team key ENG configured and no
\* team named in the request, the create call carries the teamId of the team
\* whose key is ENG, its priority is 3 when the request gives none, and a create
\* that succeeded has appended exactly one item with action 'create_issue' and
\* success = true.
C17_CreateTakesDefaultTeam ==
  (handler.action = "CREATE_LINEAR_ISSUE" /\ defaultTeamKey = ENG /\ NoTeamNamed) =>
    /\ \A input \in CreateInputs :
         /\ input.teamId = TeamsByKey(ENG)[1].id
         /\ input.priority = 3
    /\ (handler.pc = "returned" /\ result.success) =>
         /\ Len(CreateItems) = 1
         /\ CreateItems[1].success

\* C20: every action handler invocation, whatever its outcome, has sent a text
\* through callback by the time it returns.
C20_ReturnedAfterCallback ==
  handler.pc = "returned" => emitted # <<>>

\* The completion of a listing parsed to a JSON object.
ListParsed ==
  LET parsed == JSONparse(cleanedResponse(handler.response))
  IN handler.model = "resolved" /\ parsed.ok /\ ~parsed.value.null

\* The team a listing request names: the completion's teamFilter, and without
\* a parsed completion the team its text names in words; <<>> when none.
ListNamedTeam ==
  IF ListParsed
  THEN JSONparse(cleanedResponse(handler.response)).value.teamFilter
  ELSE teamMatch(message)

\* The request asks for all projects: the completion's showAll, and without a
\* parsed completion the words of its text.
ListAsksAll ==
  IF ListParsed
  THEN JSONparse(cleanedResponse(handler.response)).value.showAll
  ELSE showAllProjects(message)

\* The teamIds the handler passed to linearService.getProjects.
ProjectFilters ==
  {handler.called[i].arg : i \in {j \in DOMAIN handler.called :
                                    handler.called[j].op = "getProjects"}}

\* C18: in LIST_LINEAR_PROJECTS with a default team key configured, the
\* projects are fetched for the default team unless the request names a team or
\* asks for all projects; a request that names a team is fetched for that team
\* (for no team when the name matches none), and a request for all projects is
\* fetched for no team: the default team is not applied to either.
C18_DefaultTeamInListing ==
  (handler.action = "LIST_LINEAR_PROJECTS" /\ defaultTeamKey # <<>>) =>
    \A teamId \in ProjectFilters :
      teamId =
        IF ListNamedTeam # <<>>
        THEN IF TeamsByKeyOrName(ListNamedTeam) # <<>>
             THEN TeamsByKeyOrName(ListNamedTeam)[1].id
             ELSE Undefined
        ELSE IF ListAsksAll THEN Undefined
        ELSE TeamsByKey(defaultTeamKey)[1].id

\* ------------------------------------------- claims on failures and order

\* The invocations of service methods that logged a failure.
FailedInvocations ==
  {n \in DOMAIN logged : \E k \in DOMAIN logged[n] : ~logged[n][k].success}

\* C21: for every action handler, a LinearService call that fails while the
\* request is handled is recorded in the ledger with success = false, and the
\* handler returns a failure result: it does not report success for that
\* request.
C21_FailedCallFailsRequest ==
  /\ \A c \in Slots :
       calls[c].pc = "thrown" => calls[c].inv \in FailedInvocations
  /\ (handler.pc = "returned" /\ handler.action # "GET_LINEAR_ACTIVITY"
        /\ FailedInvocations # {})
       => ~result.success

\* The slots whose invocation completes in a step.
Completing ==
  {c \in Slots : calls[c].pc = "await" /\ calls'[c].pc \in {"returned", "thrown"}}

\* C22: with operations in flight at once and their completions interleaved in
\* any order, every completion appends exactly one entry to the end of the
\* ledger, the entry of the operation that completed, and nothing else touches
\* the ledger: no entry is lost or duplicated, and the ledger is in the order
\* of completion.
C22_AppendsInCompletionOrder ==
  [][ /\ Cardinality(Completing) <= 1
      /\ \A c \in Completing :
           /\ logged[calls[c].inv] = <<>>
           /\ Len(logged'[calls[c].inv]) = 1
           /\ activityLog' = Append(activityLog, logged'[calls[c].inv][1])
      /\ \A n \in DOMAIN logged :
           (\A c \in Completing : calls[c].inv # n) => logged'[n] = logged[n]
      /\ Completing = {} => activityLog' = activityLog ]_vars

\* The second of two overlapping invocations completed first, and its entry
\* is the first of the ledger.
C22_Witness ==
  /\ Len(activityLog) = 2
  /\ Len(logged) >= 2
  /\ logged[2] = <<activityLog[1]>>
  /\ logged[1] = <<activityLog[2]>>


\* ------------------------------------------ claims on emptying and in flight
\* C23: clearActivityLog and stop cancel nothing.  The ledger holds exactly the
\* items pushed since it was last emptied (the newest MaxActivities of them),
\* and an invocation that was in flight when the ledger was emptied still
\* pushes its one item when it completes, so the ledger can be non-empty
\* after stop.
C23_LedgerHoldsSinceEmptied ==
  LET kept == Min(SinceClear, MaxActivities) IN
    /\ Len(activityLog) = kept
    /\ \A i \in 1..kept : activityLog[i].id = inserted - kept + i
    /\ \A c \in Slots :
         calls[c].outlived # "none" =>
           /\ calls[c].pc \in {"await", "returned", "thrown"}
           /\ calls[c].pc # "await" =>
                /\ Len(logged[calls[c].inv]) = 1
                /\ LET item == logged[calls[c].inv][1] IN
                     item.id > inserted - kept =>
                       activityLog[item.id - (inserted - kept)] = item

C23_Witness ==
  \E c \in Slots :
    /\ calls[c].outlived = "stop"
    /\ calls[c].pc = "returned"
    /\ activityLog = logged[calls[c].inv]
    /\ activityLog # <<>>


\* ------------------------------------------------- claims on the remote calls
\* The entries of handler.called that name the service method op.
CallsOf(op) == {i \in DOMAIN handler.called : handler.called[i].op = op}

\* C24: GET_LINEAR_ISSUE never retries: within one request getIssue is invoked
\* once at most, and a failed fetch of directId ends the request with a
\* failure result, without a fetch of any other identifier.
C24_GetFetchesOnce ==
  handler.action = "GET_LINEAR_ISSUE" =>
    /\ Cardinality(CallsOf("getIssue")) <= 1
    /\ \A i, j \in CallsOf("getIssue") : handler.called[i].arg = handler.called[j].arg


\* ------------------------------------------------- claims on the activity
\* The filters the request asked for hold of item: every field filter by
\* equality, the time range by a timestamp at or after fromDate.
Satisfies(item, filters) ==
  /\ \A key \in DOMAIN filters \ {"fromDate"} : item[key] = filters[key]
  /\ "fromDate" \in DOMAIN filters => Timestamp(item) >= filters["fromDate"]

\* C25: GET_LINEAR_ACTIVITY returns the most recent matching items: without
\* filters the last 10 pushed; with a parsed limit L and parsed filters the
\* up-to-L most recent items that satisfy every filter, the time range being
\* satisfied by a timestamp at or after fromDate.
C25_MostRecentMatching ==
  (handler.action = "GET_LINEAR_ACTIVITY" /\ handler.pc = "returned" /\ result.success) =>
    IF handler.limit = 0
    THEN result.data.activity = LastN(activityLog, Min(ActivityShown, Len(activityLog)))
    ELSE LET matching == SelectSeq(activityLog,
                                   LAMBDA item : Satisfies(item, handler.filters))
         IN result.data.activity = LastN(matching, Min(handler.limit, Len(matching)))


\* The invocation the handler made as its i-th call returned (it logged a
\* success).
Succeeded(i) ==
  /\ i \in DOMAIN logged
  /\ logged[i] # <<>>
  /\ \A k \in DOMAIN logged[i] : logged[i][k].success

\* C26: in DELETE_LINEAR_ISSUE the archive call comes strictly after a
\* successful fetch of the same issue: deleteIssue(id) is issued only when the
\* call before it was getIssue(id) and it returned; when the fetch fails or no
\* identifier is determined, no archive call is issued.
C26_ArchiveAfterFetch ==
  handler.action = "DELETE_LINEAR_ISSUE" =>
    /\ \A i \in CallsOf("deleteIssue") :
         /\ i = 2
         /\ handler.called[1] = [op |-> "getIssue", arg |-> handler.called[i].arg]
         /\ Succeeded(1)
    /\ (handler.called # <<>> /\ Completed(1) /\ ~Succeeded(1)) =>
         (CallsOf("deleteIssue") = {} /\ (handler.pc = "returned" => ~result.success))
    /\ (handler.pc = "returned" /\ handler.called = <<>>) => ~result.success

C26_Witness ==
  /\ handler.action = "DELETE_LINEAR_ISSUE"
  /\ handler.pc = "returned"
  /\ result.success
  /\ Len(handler.called) = 2
  /\ handler.called[2].op = "deleteIssue"
  /\ Succeeded(2)


\* C27: in CREATE_LINEAR_COMMENT a createComment call is issued only with an
\* issue id and a non-empty comment body; in the natural-language version only
\* after getIssue of the extracted identifier succeeded, with the fetched
\* issue's stable id; when the identifier is missing, the fetch fails or the
\* body is empty, no comment is created and a failure result is returned.
C27_CommentNeedsIssueAndBody ==
  handler.action = "CREATE_LINEAR_COMMENT" =>
    /\ \A i \in CallsOf("createComment") :
         /\ handler.called[i].arg.issueId # <<>>
         /\ handler.called[i].arg.body # <<>>
         /\ i > 1 =>
              /\ handler.called[i - 1].op = "getIssue"
              /\ Succeeded(i - 1)
              /\ handler.called[i].arg.issueId = StableId(handler.called[i - 1].arg)
    /\ (handler.pc = "returned" /\ CallsOf("createComment") = {}) => ~result.success
    /\ (handler.pc = "returned" /\ result.success) =>
         \E i \in CallsOf("createComment") : Succeeded(i)


ClaimedPriority(p) ==
  IF p.type = "number" THEN (IF p.n \in 1..4 THEN p.n ELSE 0)
  ELSE LET low == toLowerCase(p.chars)
       IN CASE low = <<"u", "r", "g", "e", "n", "t">> -> 1
            [] low = <<"h", "i", "g", "h">> -> 2
            [] low = <<"n", "o", "r", "m", "a", "l">> -> 3
            [] low = <<"l", "o", "w">> -> 4
            [] low = <<"1">> -> 1
            [] low = <<"2">> -> 2
            [] low = <<"3">> -> 3
            [] low = <<"4">> -> 4
            [] OTHER -> 0

\* The completion of a search parsed to an object.
SearchParsed ==
  /\ handler.action = "SEARCH_LINEAR_ISSUES"
  /\ handler.model = "resolved"
  /\ JSONparse(cleanedResponse(handler.response)).ok
  /\ ~JSONparse(cleanedResponse(handler.response)).value.null

\* C29: a priority word (in any case) or a digit 1-4, given as a string or as
\* a number, is carried as the integer 1..4 in the search filters; a value
\* that is neither adds no priority and does not abort the interpretation of
\* the other criteria (here: the team the completion names).
C29_PrioritiesMapped ==
  SearchParsed =>
    LET parsed == JSONparse(cleanedResponse(handler.response)).value
        claimed == SelectSeq([i \in DOMAIN parsed.priorities |->
                                ClaimedPriority(parsed.priorities[i])],
                             LAMBDA n : n # 0)
    IN \A filters \in SearchFilters :
         /\ filters.priority = claimed
         /\ parsed.teams # <<>> => filters.team = parsed.teams[1]


\* ------------------------------------------------ claims on the regex fallback
\* s is one or more letters, a hyphen and one or more digits.
IsLetterToken(s) ==
  \E k \in 2..(Len(s) - 1) :
    /\ s[k] = "-"
    /\ \A i \in 1..(k - 1) : s[i] \in Letters
    /\ \A i \in (k + 1)..Len(s) : s[i] \in Digits

\* text holds a token of letters, a hyphen and digits.
HoldsLetterToken(text) ==
  \E i, j \in 1..Len(text) : i <= j /\ IsLetterToken(SubSeq(text, i, j))

\* The get, update or delete handler took its regex fallback on the request
\* text.
FellBack ==
  /\ handler.action \in {"GET_LINEAR_ISSUE", "UPDATE_LINEAR_ISSUE", "DELETE_LINEAR_ISSUE"}
  /\ handler.fallback

====
